---- MODULE Spec2Model ----
(***************************************************************************)
(* Model of the DUS sign-in plugin (src/main.py): the per-user settings,   *)
(* the per-user scheduler tasks running on one cooperative event loop, the *)
(* three-step portal check-in and the notification fan-out.                *)
(*                                                                         *)
(* One action is one uninterrupted run of a coroutine on the event loop:   *)
(* from the point where it is resumed to the next await that suspends it.  *)
(* A command handler that never suspends is a single action.               *)
(***************************************************************************)
EXTENDS Integers, Sequences, FiniteSets, TLC

(***************************************************************************)
(* Bounds of the model.                                                    *)
(***************************************************************************)
MaxProcs == 3          \* coroutines (scheduler tasks, manual check-ins) ever created
MaxHours == 26         \* length of the observed period, in hours: two fires
MaxCmds == 2           \* commands the users send
MaxLen == 2            \* phrases of the body of a submission response

(***************************************************************************)
(* Time.  The clock counts minutes; minute 0 is 00:00 of day 1 of a month. *)
(***************************************************************************)
MinutesPerDay == 1440
MinutesPerHour == 60
DaysInMonth == 31
Cooldown == 60         \* asyncio.sleep(3600), in minutes
ValueError == -1       \* the outcome "raises ValueError" of a computation

\* the observed period starts on the last day of a month at 22:00
StartNow == (DaysInMonth - 1) * MinutesPerDay + 22 * MinutesPerHour
MaxNow == StartNow + MaxHours * MinutesPerHour

DayIndex(t) == t \div MinutesPerDay
DayOfMonth(t) == (DayIndex(t) % DaysInMonth) + 1
MinuteOfDay(t) == t % MinutesPerDay

(***************************************************************************)
(* Strings that the code takes apart are sequences of characters.          *)
(***************************************************************************)
Digits == <<"0", "1", "2", "3", "4", "5", "6", "7", "8", "9">>
IsDigit(c) == \E i \in 1..10 : Digits[i] = c
DigitVal(c) == (CHOOSE i \in 1..10 : Digits[i] = c) - 1

RECURSIVE split(_, _)
\* str.split(sep): the parts of s between the occurrences of sep
split(s, sep) ==
    IF \A i \in 1..Len(s) : s[i] # sep
    THEN <<s>>
    ELSE LET i == CHOOSE k \in 1..Len(s) :
                      s[k] = sep /\ \A j \in 1..(k - 1) : s[j] # sep
         IN  <<SubSeq(s, 1, i - 1)>> \o split(SubSeq(s, i + 1, Len(s)), sep)

RECURSIVE int(_)
\* int(s) for a string of decimal digits; ValueError for anything else
int(s) ==
    IF Len(s) = 0 \/ \E i \in 1..Len(s) : ~IsDigit(s[i])
    THEN ValueError
    ELSE IF Len(s) = 1
         THEN DigitVal(s[1])
         ELSE 10 * int(SubSeq(s, 1, Len(s) - 1)) + DigitVal(s[Len(s)])

\* hour, minute = map(int, auto_signin_time.split(':')); time(hour, minute)
\* as the minute of the day, or ValueError
target_time(text) ==
    LET parts == split(text, ":")
    IN  IF Len(parts) # 2
        THEN ValueError
        ELSE LET hour == int(parts[1])
                 minute == int(parts[2])
             IN  IF hour = ValueError \/ minute = ValueError
                 THEN ValueError
                 ELSE IF hour > 23 \/ minute > 59
                      THEN ValueError
                      ELSE hour * MinutesPerHour + minute

\* datetime.combine(now.date(), target_time), and replace(day=day+1) when
\* that moment is not in the future; ValueError when day+1 is not a day of
\* the month
next_run(t, text) ==
    LET tod == target_time(text)
        today == DayIndex(t) * MinutesPerDay + tod
    IN  IF tod = ValueError
        THEN ValueError
        ELSE IF today > t
             THEN today
             ELSE IF DayOfMonth(t) + 1 > DaysInMonth
                  THEN ValueError
                  ELSE today + MinutesPerDay

(***************************************************************************)
(* A Python dict is a sequence of <<key, value>> pairs in insertion order. *)
(***************************************************************************)
DictKeys(d) == [i \in 1..Len(d) |-> d[i][1]]
DictHas(d, k) == \E i \in 1..Len(d) : d[i][1] = k
DictGet(d, k, default) ==
    IF DictHas(d, k)
    THEN d[CHOOSE i \in 1..Len(d) : d[i][1] = k][2]
    ELSE default
DictSet(d, k, v) ==
    IF DictHas(d, k)
    THEN [i \in 1..Len(d) |-> IF d[i][1] = k THEN <<k, v>> ELSE d[i]]
    ELSE Append(d, <<k, v>>)
DictDel(d, k) == SelectSeq(d, LAMBDA e : e[1] # k)

(***************************************************************************)
(* Values of the model.                                                    *)
(***************************************************************************)
Users == {"u1", "u2"}
Cookies == {"ck1", "ck2"}
ClassIds == {"c1", "c2"}
TaskIds == {"t1"}
T0800 == <<"0", "8", ":", "0", "0">>
T2300 == <<"2", "3", ":", "0", "0">>
T2500 == <<"2", "5", ":", "0", "0">>
TBad == <<"8", "h">>
Levels == {"always", "never", "failure_only"}
\* a chat a command is sent from: event.unified_msg_origin, event.get_group_id()
Chats == {[origin |-> "grp_1", group |-> TRUE], [origin |-> "prv", group |-> FALSE]}

\* SigninConfig(): the dataclass defaults and __post_init__
\* a SigninConfig whose default auto_signin_time is empty
SigninConfig_no_time ==
    [cookie |-> "", lat |-> <<>>, lng |-> <<>>, class_id |-> "",
     auto_signin_enabled |-> FALSE, auto_signin_time |-> <<>>,
     notification_targets |-> <<>>, notification_types |-> <<>>,
     offset |-> 20]

SigninConfig ==
    [cookie |-> "", lat |-> <<>>, lng |-> <<>>, class_id |-> "",
     auto_signin_enabled |-> FALSE, auto_signin_time |-> T0800,
     notification_targets |-> <<>>, notification_types |-> <<>>,
     offset |-> 20]

\* is_complete()
is_complete(config) == config.cookie # "" /\ config.lat # <<>> /\ config.lng # <<>>

NoResult == [success |-> FALSE, message |-> "none", excerpt |-> <<>>]
\* what is remembered of the last fire of a scheduler task: that a check-in
\* attempt started, the invocations of the Notifier and the result they were
\* given, whether a request of the attempt raised a transport error, and the
\* targets the Notifier visited as <<target, level, success, sent>>, the
\* targets whose send_message raised, the last response of the portal, and
\* the messages given to send_message as <<target, "at" or "plain">>
NoAttempt == [fired |-> FALSE, calls |-> 0, res |-> NoResult, terr |-> FALSE,
              log |-> <<>>, fail |-> <<>>, resp |-> <<>>, chain |-> <<>>]

\* a coroutine on the event loop: a scheduler task or a manual check-in
\*   pc      the await it is suspended in
\*   cancel  "no", "pending" (cancel() called, CancelledError not yet thrown
\*           into the coroutine) or "delivered"
\*   wake    the time a sleep ends
\*   cookie  the Cookie header of the attempt's request headers
\*   sent                  the coordinates of the submission that is in flight
\*   task_id, lat, offset  the task found, and the latitude and the jitter
\*           radius the submitted coordinates are made of
\*   result  the result of the attempt
\*   nidx, nkeys  the position of the dict iterator of the notification loop
\*           and the keys of the dict when the iteration started
\* and history kept for the properties: att (the last fire), cancelAt and
\* cancelBy (where and by whom it was cancelled), errAt and errCause (the
\* last entry into the cooldown), waitCookie (the credential when the wait
\* started), reply (what a manual check-in answered) and list (the class ids
\* it listed)
NewProc(kind, user) ==
    [kind |-> kind, user |-> user, pc |-> "created", cancel |-> "no",
     wake |-> 0, cookie |-> "", task_id |-> "", lat |-> <<>>, offset |-> 0, sent |-> <<>>,
     result |-> NoResult,
     nidx |-> 0, nkeys |-> <<>>,
     att |-> NoAttempt, cancelAt |-> "", cancelBy |-> "",
     errAt |-> ValueError, errCause |-> "", waitCookie |-> "", reply |-> "",
     list |-> <<>>]

VARIABLES
    user_configs,      \* self.user_configs: user id -> SigninConfig
    scheduled_tasks,   \* self.scheduled_tasks: user id -> task
    session,           \* self.session: "none", "open" or "closed"
    file,              \* dus_signin_configs.json
    procs,             \* the coroutines created so far
    now,               \* datetime.now()
    life,              \* "constructed", "running", "gathering", "saved", "terminated"
    ncmds,             \* the number of commands sent so far
    answer             \* what the last set command answered: "ok", "error" or
                       \* "nothing" (to remove), "" before the first

vars ==
    <<user_configs, scheduled_tasks, session, file, procs, now, life, ncmds, answer>>

(***************************************************************************)
(* The event loop.  create_task and cancel() queue the first step of the   *)
(* new task and the resumption of the cancelled task with call_soon: these *)
(* run in the order in which they were queued, before the loop looks at    *)
(* the timers and the network again, so before any sleep ends, any         *)
(* response arrives and any further command is dispatched.                 *)
(***************************************************************************)
\* the coroutines queued with call_soon
Ready == {i \in 1..Len(procs) : procs[i].cancel = "pending" \/ procs[i].pc = "created"}
Quiet == Ready = {}
FirstReady(i) == i \in Ready /\ \A j \in Ready : i <= j

(***************************************************************************)
(* The responses of the portal.                                            *)
(***************************************************************************)
\* GET /student: a transport error, or a status and the course_id matches
ClassResponses ==
    {[exc |-> TRUE, status |-> 0, ids |-> <<>>],
     [exc |-> FALSE, status |-> 200, ids |-> <<>>],
     [exc |-> FALSE, status |-> 200, ids |-> <<"c1">>],
     [exc |-> FALSE, status |-> 200, ids |-> <<"c2", "c1">>],
     [exc |-> FALSE, status |-> 403, ids |-> <<>>],
     [exc |-> FALSE, status |-> 500, ids |-> <<>>]}

\* GET /student/course/<class_id>/punchs: a transport error, or a status, the
\* task id in the final URL and the task id the patterns find in the page
TaskResponses ==
    {[exc |-> TRUE, status |-> 0, redirect |-> "", page |-> ""],
     [exc |-> FALSE, status |-> 200, redirect |-> "", page |-> "t1"],
     [exc |-> FALSE, status |-> 200, redirect |-> "", page |-> ""],
     [exc |-> FALSE, status |-> 200, redirect |-> "t1", page |-> ""],
     [exc |-> FALSE, status |-> 403, redirect |-> "", page |-> ""],
     [exc |-> FALSE, status |-> 403, redirect |-> "t1", page |-> ""],
     [exc |-> FALSE, status |-> 500, redirect |-> "", page |-> ""]}

\* POST /student/punchs/course/<class_id>/<task_id>: a transport error, or
\* the body as the sequence of its phrases
SubmitResponses ==
    {[exc |-> TRUE, content |-> <<>>],
     [exc |-> FALSE, content |-> <<>>],
     [exc |-> FALSE, content |-> <<"signin_success">>],
     [exc |-> FALSE, content |-> <<"already_signed">>],
     [exc |-> FALSE, content |-> <<"too_far">>],
     [exc |-> FALSE, content |-> <<"other">>]}

Contains(content, phrase) == \E i \in 1..Len(content) : content[i] = phrase
Prefix(content, n) == SubSeq(content, 1, IF Len(content) < n THEN Len(content) ELSE n)

Failed(message) == [success |-> FALSE, message |-> message, excerpt |-> <<>>]
Succeeded(message) == [success |-> TRUE, message |-> message, excerpt |-> <<>>]
CookieExpired == Failed("cookie_expired")

\* a _get_class_list that takes the last class of the page
get_class_list_last(r) ==
    IF r.exc
    THEN [raise |-> FALSE, class_id |-> ""]
    ELSE IF r.status = 200
         THEN [raise |-> FALSE,
               class_id |-> IF Len(r.ids) > 0 THEN r.ids[Len(r.ids)] ELSE ""]
         ELSE IF r.status = 403
              THEN [raise |-> TRUE, class_id |-> ""]
              ELSE [raise |-> FALSE, class_id |-> ""]

\* _get_class_list: the class id, "" or the COOKIE_EXPIRED exception
get_class_list(r) ==
    IF r.exc
    THEN [raise |-> FALSE, class_id |-> ""]
    ELSE IF r.status = 200
         THEN [raise |-> FALSE, class_id |-> IF Len(r.ids) > 0 THEN r.ids[1] ELSE ""]
         ELSE IF r.status = 403
              THEN [raise |-> TRUE, class_id |-> ""]
              ELSE [raise |-> FALSE, class_id |-> ""]

\* a _get_task_id that falls back to a task id of its own
get_task_id_default(r) ==
    IF r.exc
    THEN [raise |-> FALSE, task_id |-> "t1"]
    ELSE IF r.redirect # ""
         THEN [raise |-> FALSE, task_id |-> r.redirect]
         ELSE IF r.status = 200
              THEN [raise |-> FALSE, task_id |-> IF r.page = "" THEN "t1" ELSE r.page]
              ELSE IF r.status = 403
                   THEN [raise |-> TRUE, task_id |-> ""]
                   ELSE [raise |-> FALSE, task_id |-> "t1"]

\* _get_task_id: the task id, "" or the COOKIE_EXPIRED exception
get_task_id(r) ==
    IF r.exc
    THEN [raise |-> FALSE, task_id |-> ""]
    ELSE IF r.redirect # ""
         THEN [raise |-> FALSE, task_id |-> r.redirect]
         ELSE IF r.status = 200
              THEN [raise |-> FALSE, task_id |-> r.page]
              ELSE IF r.status = 403
                   THEN [raise |-> TRUE, task_id |-> ""]
                   ELSE [raise |-> FALSE, task_id |-> ""]

\* a classification that looks for the failure phrase first
classify_failure_first(content) ==
    IF Contains(content, "signin_failed") THEN Failed("signin_failed")
    ELSE IF Contains(content, "signin_success") THEN Succeeded("signin_success")
    ELSE IF Contains(content, "already_signed") THEN Succeeded("already_signed")
    ELSE IF Contains(content, "too_far") \/ Contains(content, "wrong_place")
         THEN Failed("too_far")
    ELSE IF Contains(content, "wrong_time") \/ Contains(content, "not_signin_time")
         THEN Failed("wrong_time")
    ELSE IF Contains(content, "no_such_task") \/ Contains(content, "invalid_task")
         THEN Failed("invalid_task")
    ELSE [success |-> FALSE, message |-> "unknown_status",
          excerpt |-> Prefix(content, 100)]

\* the classification of a body that is not empty, by the first phrase found
classify(content) ==
    IF Contains(content, "signin_success") THEN Succeeded("signin_success")
    ELSE IF Contains(content, "already_signed") THEN Succeeded("already_signed")
    ELSE IF Contains(content, "signin_failed") THEN Failed("signin_failed")
    ELSE IF Contains(content, "too_far") \/ Contains(content, "wrong_place")
         THEN Failed("too_far")
    ELSE IF Contains(content, "wrong_time") \/ Contains(content, "not_signin_time")
         THEN Failed("wrong_time")
    ELSE IF Contains(content, "no_such_task") \/ Contains(content, "invalid_task")
         THEN Failed("invalid_task")
    ELSE [success |-> FALSE, message |-> "unknown_status",
          excerpt |-> Prefix(content, 100)]

\* an _execute_signin whose except clause reports a success
execute_signin_optimistic(r) ==
    IF r.exc THEN Succeeded("signin_success")
    ELSE IF Len(r.content) = 0 THEN Failed("empty_response")
    ELSE classify(r.content)

\* _execute_signin: the result for a response of the submission
execute_signin(r) ==
    IF r.exc THEN Failed("request_exception")
    ELSE IF Len(r.content) = 0 THEN Failed("empty_response")
    ELSE classify(r.content)

(***************************************************************************)
(* The scheduler loop and the Notifier, as the run of a task from the      *)
(* point where it is resumed to its next await.                            *)
(***************************************************************************)
\* headers that were built once, for the first user, and are used by all
headers_cached(config) == "ck1"

\* the headers dict an attempt builds for itself, as its Cookie header (the
\* other headers do not depend on the user)
headers(config) == config.cookie

\* session.get or session.post with the headers of the attempt: the
\* coroutine is suspended until the response arrives
Request(p, op) == [p EXCEPT !.pc = op]

\* the response r arrives, or the request raises
Response(p, r) ==
    [p EXCEPT !.att.terr = @ \/ r.exc, !.att.resp = r]

\* a loop whose except clause does not sleep
LoopHead_no_cooldown(p, cfgs, t) ==
    LET config == cfgs[p.user]
        next == next_run(t, config.auto_signin_time)
    IN  IF ~config.auto_signin_enabled
        THEN [p EXCEPT !.pc = "done"]
        ELSE IF next = ValueError
             THEN [p EXCEPT !.pc = "cooldown", !.wake = t,
                            !.errAt = t, !.errCause = "schedule"]
             ELSE [p EXCEPT !.pc = "waiting", !.wake = next,
                            !.waitCookie = config.cookie]

\* the head of the loop of _auto_signin_task up to the sleep: the task ends
\* when auto check-in is off, sleeps until next_run, or enters the cooldown
\* when the computation of next_run raises
LoopHead(p, cfgs, t) ==
    LET config == cfgs[p.user]
        next == next_run(t, config.auto_signin_time)
    IN  IF ~config.auto_signin_enabled
        THEN [p EXCEPT !.pc = "done"]
        ELSE IF next = ValueError
             THEN [p EXCEPT !.pc = "cooldown", !.wake = t + Cooldown,
                            !.errAt = t, !.errCause = "schedule"]
             ELSE [p EXCEPT !.pc = "waiting", !.wake = next,
                            !.waitCookie = config.cookie]

\* a test that forgets the level failure_only
Skipped_never_only(level, result) == level = "never"

\* the test of _send_signin_notification on one target
Skipped(level, result) ==
    level = "never" \/ (level = "failure_only" /\ result.success)

\* a session type that is always guessed from the target
session_type_guessed(config, target) ==
    IF target \in {"grp_1", "prv_2"} THEN "group" ELSE "private"

\* the session type of a target in _send_signin_notification: the one in
\* notification_types or, when there is none or an empty one, "group" for a
\* target that holds "group" or an underscore (of the targets of the model:
\* grp_1 and prv_2) and "private" for another
session_type(config, target) ==
    IF DictGet(config.notification_types, target, "") # ""
    THEN DictGet(config.notification_types, target, "")
    ELSE IF target \in {"grp_1", "prv_2"} THEN "group" ELSE "private"

RECURSIVE NotifyScan(_, _, _)
\* the loop of _send_signin_notification from entry i of the targets up to
\* the first send_message, whose message mentions the user for the session
\* type group, or to the end of the loop (pc = "notified")
NotifyScan(p, config, i) ==
    IF i > Len(config.notification_targets)
    THEN [p EXCEPT !.pc = "notified"]
    ELSE LET target == config.notification_targets[i][1]
             level == config.notification_targets[i][2]
             skip == Skipped(level, p.result)
             q == [p EXCEPT !.att.log =
                        Append(@, <<target, level, p.result.success, ~skip>>)]
         IN  IF skip
             THEN NotifyScan(q, config, i + 1)
             ELSE [q EXCEPT !.pc = "send", !.nidx = i,
                            !.att.chain =
                                Append(@, <<target,
                                            IF session_type(config, target) = "group"
                                            THEN "at" ELSE "plain">>)]

\* a task after the Notifier returned: back to the head of the loop
AfterNotify(p, cfgs, t) ==
    IF p.pc = "notified" THEN LoopHead(p, cfgs, t) ELSE p

\* manual_signin answers the user with the result
Answered(p, result) ==
    [p EXCEPT !.result = result, !.pc = "done",
              !.reply = IF result.success THEN "ok" ELSE
                        IF result.message = "cookie_expired"
                        THEN "failed_with_cookie_help" ELSE "failed"]

\* a scheduler task that calls the Notifier for a success only
Notified_silent_failure(p, result, cfgs, t) ==
    IF result.success
    THEN LET targets == cfgs[p.user].notification_targets
             q == [p EXCEPT !.result = result,
                            !.att.calls = @ + 1, !.att.res = result,
                            !.nkeys = DictKeys(targets)]
         IN  AfterNotify(NotifyScan(q, cfgs[p.user], 1), cfgs, t)
    ELSE LoopHead([p EXCEPT !.result = result], cfgs, t)

\* the scheduler task calls the Notifier with the result, up to the first
\* send_message or, when nothing is sent, to the next sleep
Notified(p, result, cfgs, t) ==
    LET targets == cfgs[p.user].notification_targets
        q == [p EXCEPT !.result = result,
                       !.att.calls = @ + 1, !.att.res = result,
                       !.nkeys = DictKeys(targets)]
    IN  AfterNotify(NotifyScan(q, cfgs[p.user], 1), cfgs, t)

\* the end of _perform_signin where a transport error sends the scheduler
\* task to the cooldown
AfterResult_error_cooldown(p, result, cfgs, t) ==
    IF p.kind # "task" THEN Answered(p, result)
    ELSE IF p.att.terr
         THEN [p EXCEPT !.result = result, !.pc = "cooldown",
                        !.wake = t + Cooldown, !.errAt = t, !.errCause = "checkin"]
         ELSE Notified(p, result, cfgs, t)

\* the end of _perform_signin with a result: a scheduler task calls the
\* Notifier with it, a manual check-in answers the user
AfterResult(p, result, cfgs, t) ==
    IF p.kind = "task" THEN Notified(p, result, cfgs, t) ELSE Answered(p, result)

\* the start of _perform_signin with the credential of the time the wait
\* started
PerformStart_stale(p, config) ==
    Request([p EXCEPT !.cookie = IF p.kind = "task" THEN p.waitCookie
                                 ELSE headers(config),
                      !.result = NoResult],
            IF config.class_id = "" THEN "class" ELSE "task")

\* the start of _perform_signin: the headers take the credential, and the
\* first request is the class list when class_id is empty, else the task list
PerformStart(p, config) ==
    Request([p EXCEPT !.cookie = headers(config), !.result = NoResult],
            IF config.class_id = "" THEN "class" ELSE "task")

\* the except clause of _auto_signin_task for an error of the Notifier
NotifyError(p, t) ==
    [p EXCEPT !.pc = "cooldown", !.wake = t + Cooldown,
              !.errAt = t, !.errCause = "notify"]

\* history: where and by whom the cancellation of a task was requested
mark(ps, i, by) ==
    IF ps[i].pc = "done" \/ ps[i].cancelBy # ""
    THEN ps
    ELSE [ps EXCEPT ![i].cancelAt = ps[i].pc, ![i].cancelBy = by]

\* cancel() that does nothing
cancel_forgotten(ps, i) == ps

\* task.cancel(): nothing for a task that is done, else CancelledError is
\* thrown into the task when it is next resumed
cancel(ps, i) ==
    IF ps[i].pc = "done" \/ ps[i].cancel # "no"
    THEN ps
    ELSE [ps EXCEPT ![i].cancel = "pending"]

\* _get_user_config: the record of the user, created when missing
get_user_config(cfgs, u) ==
    IF u \in DOMAIN cfgs THEN cfgs ELSE (u :> SigninConfig) @@ cfgs

\* a _save_user_configs that writes nothing
save_nothing(cfgs) == [exists |-> FALSE, data |-> <<>>]

\* _save_user_configs: the file holds the records of all users
save_user_configs(cfgs) == [exists |-> TRUE, data |-> cfgs]

\* _schedule_auto_signin that does not cancel the registered task
schedule_without_cancel(cfgs, tasks, ps, u) ==
    IF ~cfgs[u].auto_signin_enabled
    THEN [tasks |-> tasks, procs |-> ps]
    ELSE LET ps2 == Append(ps, NewProc("task", u))
         IN  [tasks |-> (u :> Len(ps2)) @@ tasks, procs |-> ps2]

\* _schedule_auto_signin: nothing when auto check-in is off, else the
\* registered task is cancelled and a new task is created and registered
schedule_auto_signin(cfgs, tasks, ps, u) ==
    IF ~cfgs[u].auto_signin_enabled
    THEN [tasks |-> tasks, procs |-> ps]
    ELSE LET ps1 == IF u \in DOMAIN tasks
                    THEN cancel(mark(ps, tasks[u], "schedule"), tasks[u])
                    ELSE ps
             ps2 == Append(ps1, NewProc("task", u))
         IN  [tasks |-> (u :> Len(ps2)) @@ tasks, procs |-> ps2]

(***************************************************************************)
(* The initial state: the plugin object after __init__, and the settings   *)
(* file a previous run may have left.                                      *)
(***************************************************************************)
NoFile == [exists |-> FALSE, data |-> <<>>]

\* a record a previous run saved for a user with auto check-in enabled
SavedEnabled ==
    [SigninConfig EXCEPT !.cookie = "ck1", !.lat = <<"3", "0", ".", "0">>, !.lng = <<"1", "2", "0", ".", "0">>,
                         !.class_id = "c1", !.auto_signin_enabled = TRUE,
                         !.auto_signin_time = T2300,
                         !.notification_targets = <<<<"grp_1", "failure_only">>,
                                                    <<"prv", "always">>>>,
                         !.notification_types = <<<<"grp_1", "group">>,
                                                  <<"prv", "private">>>>]

\* a record a previous run saved for a user who set the credential and the
\* coordinates only
SavedManual ==
    [SigninConfig EXCEPT !.cookie = "ck1", !.lat = <<"3", "0", ".", "0">>, !.lng = <<"1", "2", "0", ".", "0">>]

InitFiles ==
    {NoFile,
     [exists |-> TRUE, data |-> ("u1" :> SavedEnabled)],
     [exists |-> TRUE, data |-> ("u1" :> SavedManual)]}

Init ==
    /\ user_configs = <<>>
    /\ scheduled_tasks = <<>>
    /\ session = "none"
    /\ file \in InitFiles
    /\ procs = <<>>
    /\ now = StartNow
    /\ life = "constructed"
    /\ ncmds = 0
    /\ answer = ""

RECURSIVE SetToSeq(_)
SetToSeq(S) ==
    IF S = {} THEN <<>>
    ELSE LET x == CHOOSE y \in S : TRUE IN <<x>> \o SetToSeq(S \ {x})

\* a load that starts no task
ScheduleAll_nothing(us, cfgs, st) == st

RECURSIVE ScheduleAll(_, _, _)
\* the calls of _schedule_auto_signin of _load_user_configs, user by user
ScheduleAll(us, cfgs, st) ==
    IF Len(us) = 0 THEN st
    ELSE ScheduleAll(Tail(us), cfgs,
                     schedule_auto_signin(cfgs, st.tasks, st.procs, Head(us)))

\* a conversion of the old format that stores every old target with the
\* level always
migrate_always(d) ==
    IF "notification_level" \in DOMAIN d /\ "notification_target" \in DOMAIN d
    THEN [k \in (DOMAIN d \ {"notification_level", "notification_target"})
                    \cup {"notification_targets"} |->
            IF k = "notification_targets"
            THEN IF d.notification_target # ""
                 THEN <<<<d.notification_target, "always">>>>
                 ELSE <<>>
            ELSE d[k]]
    ELSE d

\* the conversion of a record of the old format in _load_user_configs: when
\* the record holds both notification_level and notification_target they
\* are removed and notification_targets becomes the one pair of them, or
\* the empty mapping when the old target is empty
migrate(d) ==
    IF "notification_level" \in DOMAIN d /\ "notification_target" \in DOMAIN d
    THEN [k \in (DOMAIN d \ {"notification_level", "notification_target"})
                    \cup {"notification_targets"} |->
            IF k = "notification_targets"
            THEN IF d.notification_target # ""
                 THEN <<<<d.notification_target, d.notification_level>>>>
                 ELSE <<>>
            ELSE d[k]]
    ELSE d

\* one round of the loop of _load_user_configs without its scheduling: the
\* conversion, the empty mappings for the fields that miss, and
\* SigninConfig(**config_data), which gives every other field that misses
\* its default and raises TypeError for a key that is no field
load_config(d) ==
    LET config_data == migrate(d)
        get(k) == IF k \in DOMAIN config_data THEN config_data[k] ELSE SigninConfig[k]
    IN  [raise |-> ~(DOMAIN config_data \subseteq DOMAIN SigninConfig),
         config |-> [cookie |-> get("cookie"), lat |-> get("lat"),
                     lng |-> get("lng"), class_id |-> get("class_id"),
                     auto_signin_enabled |-> get("auto_signin_enabled"),
                     auto_signin_time |-> get("auto_signin_time"),
                     notification_targets |-> get("notification_targets"),
                     notification_types |-> get("notification_types"),
                     offset |-> get("offset")]]

\* initialize(): the session is created, the settings are loaded, record by
\* record until one raises, and the tasks of the loaded users with auto
\* check-in enabled are started
Initialize ==
    /\ life = "constructed"
    /\ life' = "running"
    /\ session' = "open"
    /\ LET us == SetToSeq(DOMAIN file.data)
           loaded == {i \in 1..Len(us) :
                        \A j \in 1..i : ~load_config(file.data[us[j]]).raise}
           cfgs == IF file.exists
                   THEN [u \in {us[i] : i \in loaded} |-> load_config(file.data[u]).config]
                   ELSE user_configs
           st == ScheduleAll(SetToSeq(DOMAIN cfgs), cfgs,
                             [tasks |-> scheduled_tasks, procs |-> procs])
       IN  /\ user_configs' = cfgs
           /\ scheduled_tasks' = st.tasks
           /\ procs' = st.procs
    /\ UNCHANGED <<file, now, ncmds, answer>>

(***************************************************************************)
(* The set command.                                                        *)
(***************************************************************************)
\* a set command that stores the value in the record of every user
SetPlain_everyone(u, param, v) ==
    /\ life = "running"
    /\ Quiet
    /\ LET cfgs0 == get_user_config(user_configs, u)
           cfgs == [w \in DOMAIN cfgs0 |-> [cfgs0[w] EXCEPT ![param] = v]]
       IN  /\ user_configs' = cfgs
           /\ file' = save_user_configs(cfgs)
    /\ answer' = "ok"
    /\ UNCHANGED <<scheduled_tasks, session, procs, now, life>>

\* a plain parameter (cookie, lat, lng, class_id): stored and saved
SetPlain(u, param, v) ==
    /\ life = "running"
    /\ Quiet
    /\ LET cfgs == [get_user_config(user_configs, u) EXCEPT ![u][param] = v]
       IN  /\ user_configs' = cfgs
           /\ file' = save_user_configs(cfgs)
    /\ answer' = "ok"
    /\ UNCHANGED <<scheduled_tasks, session, procs, now, life>>

SetCookie(u, v) == SetPlain(u, "cookie", v)
SetLat(u, v) == SetPlain(u, "lat", v)
SetLng(u, v) == SetPlain(u, "lng", v)
SetClassId(u, v) == SetPlain(u, "class_id", v)

\* float('inf') and float('nan'): nan is neither less than, equal to nor
\* greater than any number; in the model two values beyond the numbers of
\* millionths that are used
Inf == 2000000000
NaN == 2100000000

\* float(value) for the values the model sends: an optional minus sign,
\* digits and at most one point give a number, in millionths (at most six
\* digits after the point); "inf" gives Inf and "nan" gives NaN; anything
\* else raises
Micro == 1000000
float(v) ==
    LET neg == Len(v) > 0 /\ v[1] = "-"
        body == IF neg THEN Tail(v) ELSE v
        parts == split(body, ".")
        whole == IF parts[1] = <<>> THEN 0 ELSE int(parts[1])
        frac == IF Len(parts) < 2 \/ parts[2] = <<>> THEN 0
                ELSE IF Len(parts[2]) > 6 \/ int(parts[2]) = ValueError THEN ValueError
                ELSE int(parts[2]) * 10 ^ (6 - Len(parts[2]))
        number == whole * Micro + frac
    IN  IF body = <<"n", "a", "n">>
        THEN [raise |-> FALSE, value |-> NaN]
        ELSE IF body = <<"i", "n", "f">>
        THEN [raise |-> FALSE, value |-> IF neg THEN 0 - Inf ELSE Inf]
        ELSE IF \/ Len(parts) > 2 \/ whole = ValueError \/ frac = ValueError
                \/ \A i \in 1..Len(parts) : parts[i] = <<>>
        THEN [raise |-> TRUE, value |-> 0]
        ELSE [raise |-> FALSE, value |-> IF neg THEN 0 - number ELSE number]

\* str(x) of a float: nan, inf, -inf, or the digits before the point, the
\* point and the digits after it without the zeros at the end (for 0 and
\* the numbers of at least 0.0001 in magnitude, which the model computes)
str(x) ==
    LET a == IF x < 0 THEN 0 - x ELSE x
        whole == a \div Micro
        n == CHOOSE k \in 1..10 : whole < 10 ^ k /\ (k > 1 => whole >= 10 ^ (k - 1))
        six == [i \in 1..6 |-> Digits[((a \div 10 ^ (6 - i)) % 10) + 1]]
        m == CHOOSE k \in 1..6 :
                /\ \A i \in (k + 1)..6 : six[i] = "0"
                /\ k > 1 => six[k] # "0"
    IN  IF x = NaN THEN <<"n", "a", "n">>
        ELSE IF x = Inf THEN <<"i", "n", "f">>
        ELSE IF x = 0 - Inf THEN <<"-", "i", "n", "f">>
        ELSE (IF x < 0 THEN <<"-">> ELSE <<>>)
                \o [i \in 1..n |-> Digits[((whole \div 10 ^ (n - i)) % 10) + 1]]
                \o <<".">> \o SubSeq(six, 1, m)

\* the draws of random() that are told apart: draw k is k / Draws, and the
\* last one stands for the rounding that reaches the end of the interval
Draws == 4

\* _apply_offset: the coordinate plus random.uniform(-offset, offset) =
\* a + (b - a) * random(), as a string; inf - (-inf) is inf, inf * random()
\* is inf or nan and -inf + inf is nan; a coordinate that float refuses is
\* returned as it is
apply_offset(coordinate, offset, k) ==
    LET coord_float == float(coordinate)
        random_offset == IF offset \in {NaN, Inf, 0 - Inf}
                         THEN NaN
                         ELSE (0 - offset) + (2 * offset * k) \div Draws
        both == {coord_float.value, random_offset}
    IN  IF coord_float.raise
        THEN coordinate
        ELSE str(IF NaN \in both \/ both = {Inf, 0 - Inf} THEN NaN
                 ELSE IF Inf \in both THEN Inf
                 ELSE IF (0 - Inf) \in both THEN 0 - Inf
                 ELSE coord_float.value + random_offset)

\* set offset: a float that is not less than 0 is stored and saved (the
\* comparison of NaN with 0 is false)
SetOffset(u, v) ==
    /\ life = "running"
    /\ Quiet
    /\ LET cfgs == get_user_config(user_configs, u)
           offset_value == float(v)
       IN  IF offset_value.raise
              \/ (offset_value.value # NaN /\ offset_value.value < 0)
           THEN /\ user_configs' = cfgs
                /\ answer' = "error"
                /\ UNCHANGED file
           ELSE /\ user_configs' = [cfgs EXCEPT ![u].offset = offset_value.value]
                /\ file' = save_user_configs(user_configs')
                /\ answer' = "ok"
    /\ UNCHANGED <<scheduled_tasks, session, procs, now, life>>

\* a test of the time that accepts every value
MatchesTime_any(v) == TRUE

\* re.match(r'^\d{1,2}:\d{2}$', value)
MatchesTime(v) ==
    \E k \in 1..2 :
        /\ Len(v) = k + 3 \/ (Len(v) = k + 4 /\ v[k + 4] = "\n")
        /\ \A i \in 1..k : IsDigit(v[i])
        /\ v[k + 1] = ":"
        /\ IsDigit(v[k + 2]) /\ IsDigit(v[k + 3])

\* set auto_time: a value of the form H:MM or HH:MM is stored and saved and
\* the task is rescheduled when auto check-in is on; another value is refused
SetAutoTime(u, v) ==
    /\ life = "running"
    /\ Quiet
    /\ LET cfgs0 == get_user_config(user_configs, u)
       IN  IF MatchesTime(v)
           THEN LET cfgs == [cfgs0 EXCEPT ![u].auto_signin_time = v]
                    st == schedule_auto_signin(cfgs, scheduled_tasks, procs, u)
                IN  /\ cfgs[u].auto_signin_enabled => Len(procs) < MaxProcs
                    /\ user_configs' = cfgs
                    /\ file' = save_user_configs(cfgs)
                    /\ scheduled_tasks' = st.tasks
                    /\ procs' = st.procs
                    /\ answer' = "ok"
           ELSE /\ user_configs' = cfgs0
                /\ answer' = "error"
                /\ UNCHANGED <<file, scheduled_tasks, procs>>
    /\ UNCHANGED <<session, now, life>>

TrueWords == {"true", "1", "yes", "enable"}
FalseWords == {"false", "0", "no", "disable"}

\* set auto_enable: enabling stores, saves and schedules; disabling stores,
\* saves, cancels the registered task and removes it; another value is refused
SetAutoEnable(u, v) ==
    /\ life = "running"
    /\ Quiet
    /\ LET cfgs0 == get_user_config(user_configs, u)
       IN  IF v \in TrueWords
           THEN LET cfgs == [cfgs0 EXCEPT ![u].auto_signin_enabled = TRUE]
                    st == schedule_auto_signin(cfgs, scheduled_tasks, procs, u)
                IN  /\ Len(procs) < MaxProcs
                    /\ user_configs' = cfgs
                    /\ file' = save_user_configs(cfgs)
                    /\ scheduled_tasks' = st.tasks
                    /\ procs' = st.procs
                    /\ answer' = "ok"
           ELSE IF v \in FalseWords
           THEN LET cfgs == [cfgs0 EXCEPT ![u].auto_signin_enabled = FALSE]
                IN  /\ user_configs' = cfgs
                    /\ file' = save_user_configs(cfgs)
                    /\ answer' = "ok"
                    /\ IF u \in DOMAIN scheduled_tasks
                       THEN /\ procs' = cancel(mark(procs, scheduled_tasks[u], "disable"),
                                              scheduled_tasks[u])
                            /\ scheduled_tasks' =
                                  [x \in DOMAIN scheduled_tasks \ {u} |-> scheduled_tasks[x]]
                       ELSE UNCHANGED <<procs, scheduled_tasks>>
           ELSE /\ user_configs' = cfgs0
                /\ answer' = "error"
                /\ UNCHANGED <<file, scheduled_tasks, procs>>
    /\ UNCHANGED <<session, now, life>>

\* set notification: a known level is stored for the chat of the command
\* together with the kind of the chat, and saved; another level is refused
SetNotification(u, chat, v) ==
    /\ life = "running"
    /\ Quiet
    /\ LET cfgs0 == get_user_config(user_configs, u)
       IN  IF v \in Levels
           THEN LET cfgs == [cfgs0 EXCEPT
                               ![u].notification_targets = DictSet(@, chat.origin, v),
                               ![u].notification_types =
                                   DictSet(@, chat.origin,
                                           IF chat.group THEN "group" ELSE "private")]
                IN  /\ user_configs' = cfgs
                    /\ file' = save_user_configs(cfgs)
                    /\ answer' = "ok"
           ELSE /\ user_configs' = cfgs0
                /\ answer' = "error"
                /\ UNCHANGED file
    /\ UNCHANGED <<scheduled_tasks, session, procs, now, life>>

\* a remove_notification that leaves the kind of the chat behind
RemoveNotification_level_only(u, chat) ==
    /\ life = "running"
    /\ Quiet
    /\ LET cfgs0 == get_user_config(user_configs, u)
       IN  IF DictHas(cfgs0[u].notification_targets, chat.origin)
           THEN LET cfgs == [cfgs0 EXCEPT
                               ![u].notification_targets = DictDel(@, chat.origin)]
                IN  /\ user_configs' = cfgs
                    /\ file' = save_user_configs(cfgs)
                    /\ answer' = "ok"
           ELSE /\ user_configs' = cfgs0
                /\ answer' = "nothing"
                /\ UNCHANGED file
    /\ UNCHANGED <<scheduled_tasks, session, procs, now, life>>

\* set remove_notification: the entries of the chat of the command are
\* deleted and the settings saved, when the chat is a target
RemoveNotification(u, chat) ==
    /\ life = "running"
    /\ Quiet
    /\ LET cfgs0 == get_user_config(user_configs, u)
       IN  IF DictHas(cfgs0[u].notification_targets, chat.origin)
           THEN LET cfgs == [cfgs0 EXCEPT
                               ![u].notification_targets = DictDel(@, chat.origin),
                               ![u].notification_types = DictDel(@, chat.origin)]
                IN  /\ user_configs' = cfgs
                    /\ file' = save_user_configs(cfgs)
                    /\ answer' = "ok"
           ELSE /\ user_configs' = cfgs0
                /\ answer' = "nothing"
                /\ UNCHANGED file
    /\ UNCHANGED <<scheduled_tasks, session, procs, now, life>>

(***************************************************************************)
(* The steps of the coroutines.                                            *)
(***************************************************************************)
\* coroutine i is suspended in the await pc and the event it waits for arrives
Runnable(i, pc) ==
    /\ Quiet
    /\ i \in 1..Len(procs)
    /\ procs[i].pc = pc

\* a CancelledError that the except clause of _perform_signin catches: the
\* check-in that was cancelled in a request fails and the task goes on
CancelDeliver_swallowed(i) ==
    /\ FirstReady(i)
    /\ procs[i].cancel = "pending"
    /\ procs' = [procs EXCEPT ![i] =
          IF @.pc \in {"class", "task", "submit"}
          THEN AfterResult([@ EXCEPT !.cancel = "delivered"],
                           Failed("request_exception"), user_configs, now)
          ELSE [@ EXCEPT !.cancel = "delivered", !.pc = "done"]]
    /\ UNCHANGED <<user_configs, scheduled_tasks, session, file, now, life, ncmds, answer>>

\* CancelledError is thrown into the coroutine at the await it is suspended
\* in (or before its first step): _auto_signin_task leaves its loop, or the
\* error leaves the task from the cooldown sleep
CancelDeliver(i) ==
    /\ FirstReady(i)
    /\ procs[i].cancel = "pending"
    /\ procs' = [procs EXCEPT ![i].cancel = "delivered", ![i].pc = "done"]
    /\ UNCHANGED <<user_configs, scheduled_tasks, session, file, now, life, ncmds, answer>>

\* the first step of a task
TaskStart(i) ==
    /\ FirstReady(i)
    /\ procs[i].cancel = "no"
    /\ procs' = [procs EXCEPT ![i] = LoopHead(@, user_configs, now)]
    /\ UNCHANGED <<user_configs, scheduled_tasks, session, file, now, life, ncmds, answer>>

\* a fire that takes auto check-in for off: no check-in, back to the head
\* of the loop
SleepDone_skips(i) ==
    /\ Runnable(i, "waiting")
    /\ now >= procs[i].wake
    /\ procs' = [procs EXCEPT ![i] =
                    LoopHead([@ EXCEPT !.att = NoAttempt], user_configs, now)]
    /\ UNCHANGED <<user_configs, scheduled_tasks, session, file, now, life, ncmds, answer>>

\* the sleep until next_run ends: the fire.  The configuration is read again
\* and the check-in starts when auto check-in is still on
SleepDone(i) ==
    /\ Runnable(i, "waiting")
    /\ now >= procs[i].wake
    /\ LET config == user_configs[procs[i].user]
           p == [procs[i] EXCEPT !.att = NoAttempt]
       IN  procs' = [procs EXCEPT ![i] =
                        IF config.auto_signin_enabled
                        THEN PerformStart([p EXCEPT !.att.fired = TRUE], config)
                        ELSE LoopHead(p, user_configs, now)]
    /\ UNCHANGED <<user_configs, scheduled_tasks, session, file, now, life, ncmds, answer>>

\* a cooldown that is followed by another cooldown
CooldownDone_again(i) ==
    /\ Runnable(i, "cooldown")
    /\ now >= procs[i].wake
    /\ procs' = [procs EXCEPT ![i].wake = now + Cooldown]
    /\ UNCHANGED <<user_configs, scheduled_tasks, session, file, now, life, ncmds, answer>>

\* the cooldown sleep ends: back to the head of the loop
CooldownDone(i) ==
    /\ Runnable(i, "cooldown")
    /\ now >= procs[i].wake
    /\ procs' = [procs EXCEPT ![i] = LoopHead(@, user_configs, now)]
    /\ UNCHANGED <<user_configs, scheduled_tasks, session, file, now, life, ncmds, answer>>

\* the response of the class list arrives in _perform_signin: a class id is
\* stored in the record of the user and saved, and the task list is requested
ClassResp(i, r) ==
    /\ Runnable(i, "class")
    /\ LET p == Response(procs[i], r)
           found == get_class_list(r)
       IN  IF found.raise
           THEN /\ procs' = [procs EXCEPT ![i] =
                                AfterResult(p, CookieExpired, user_configs, now)]
                /\ UNCHANGED <<user_configs, file>>
           ELSE IF found.class_id = ""
           THEN /\ procs' = [procs EXCEPT ![i] =
                                AfterResult(p, Failed("no_class_or_list_failed"),
                                            user_configs, now)]
                /\ UNCHANGED <<user_configs, file>>
           ELSE LET cfgs == [user_configs EXCEPT ![p.user].class_id = found.class_id]
                IN  /\ user_configs' = cfgs
                    /\ file' = save_user_configs(cfgs)
                    /\ procs' = [procs EXCEPT ![i] = Request(p, "task")]
    /\ UNCHANGED <<scheduled_tasks, session, now, life, ncmds, answer>>

\* the response of the task list arrives: with a task id the coordinates are
\* read, each gets a jitter of its own (draws k1 and k2) and the check-in is
\* submitted
TaskDraw(i, r, k1, k2) ==
    /\ Runnable(i, "task")
    /\ LET p == Response(procs[i], r)
           found == get_task_id(r)
           config == user_configs[p.user]
       IN  procs' = [procs EXCEPT ![i] =
              IF found.raise
              THEN AfterResult(p, CookieExpired, user_configs, now)
              ELSE IF found.task_id = ""
              THEN AfterResult(p, Failed("no_task_found"), user_configs, now)
              ELSE Request([p EXCEPT !.task_id = found.task_id,
                                      !.lat = config.lat,
                                      !.offset = config.offset,
                                      !.sent = <<apply_offset(config.lat, config.offset, k1),
                                                 apply_offset(config.lng, config.offset, k2)>>],
                           "submit")]
    /\ UNCHANGED <<user_configs, scheduled_tasks, session, file, now, life, ncmds, answer>>

\* the same where the coordinates that are sent are not looked at: the two
\* draws are the two ends of the interval
TaskResp(i, r) == TaskDraw(i, r, 0, Draws)

\* the response of the submission arrives and is classified
SubmitResp(i, r) ==
    /\ Runnable(i, "submit")
    /\ LET p == [Response(procs[i], r) EXCEPT !.sent = <<>>]
       IN  procs' = [procs EXCEPT ![i] =
                        AfterResult(p, execute_signin(r), user_configs, now)]
    /\ UNCHANGED <<user_configs, scheduled_tasks, session, file, now, life, ncmds, answer>>

\* send_message returns or raises (the exception is logged): the loop over
\* the targets goes on.  The dict iterator raises RuntimeError when the dict
\* changed its size since the loop started; when its keys changed at the same
\* size the iterator may raise or go on
SendDone(i, raises, fails) ==
    /\ Runnable(i, "send")
    /\ LET p == IF fails
                THEN [procs[i] EXCEPT !.att.fail =
                         Append(@, procs[i].att.log[Len(procs[i].att.log)][1])]
                ELSE procs[i]
           targets == user_configs[p.user].notification_targets
       IN  /\ raises => DictKeys(targets) # p.nkeys
           /\ Len(targets) # Len(p.nkeys) => raises
           /\ procs' = [procs EXCEPT ![i] =
                  IF raises
                  THEN NotifyError(p, now)
                  ELSE AfterNotify(NotifyScan(p, user_configs[p.user], p.nidx + 1),
                                   user_configs, now)]
    /\ UNCHANGED <<user_configs, scheduled_tasks, session, file, now, life, ncmds, answer>>

(***************************************************************************)
(* The now command.                                                        *)
(***************************************************************************)
\* manual_signin up to its first await: nothing but an answer when the
\* configuration is incomplete, the class list is requested when class_id is
\* empty, else "signing in" is answered
ManualStart(u) ==
    /\ life = "running"
    /\ Quiet
    /\ Len(procs) < MaxProcs
    /\ LET cfgs == get_user_config(user_configs, u)
       IN  /\ user_configs' = cfgs
           /\ procs' = IF ~is_complete(cfgs[u])
                       THEN procs
                       ELSE LET p == [NewProc("manual", u) EXCEPT
                                         !.cookie = headers(cfgs[u])]
                            IN  Append(procs,
                                  IF cfgs[u].class_id = ""
                                  THEN Request(p, "mclass")
                                  ELSE [p EXCEPT !.pc = "myield"])
    /\ UNCHANGED <<scheduled_tasks, session, file, now, life, answer>>

\* the response of the class list of manual_signin: one class is stored and
\* saved, several classes are listed to the user, anything else is an answer
ManualClassResp(i, r) ==
    /\ Runnable(i, "mclass")
    /\ LET p == [procs[i] EXCEPT !.att.resp = r]
           said(text) == [p EXCEPT !.pc = "done", !.reply = text]
       IN  IF ~r.exc /\ r.status = 200 /\ Len(r.ids) = 1
           THEN LET cfgs == [user_configs EXCEPT ![p.user].class_id = r.ids[1]]
                IN  /\ user_configs' = cfgs
                    /\ file' = save_user_configs(cfgs)
                    /\ procs' = [procs EXCEPT ![i] = [p EXCEPT !.pc = "myield"]]
           ELSE /\ procs' = [procs EXCEPT ![i] =
                       IF r.exc THEN said("class_list_error")
                       ELSE IF r.status # 200 THEN said("class_list_failed")
                       ELSE IF Len(r.ids) = 0 THEN said("no_class")
                       ELSE [said("class_list") EXCEPT !.list = r.ids]]
                /\ UNCHANGED <<user_configs, file>>
    /\ UNCHANGED <<scheduled_tasks, session, now, life, ncmds, answer>>

\* a manual check-in whose _perform_signin always asks for the class list
ManualExec_always_class(i) ==
    /\ Runnable(i, "myield")
    /\ procs' = [procs EXCEPT ![i] = Request(@, "class")]
    /\ UNCHANGED <<user_configs, scheduled_tasks, session, file, now, life, ncmds, answer>>

\* after "signing in" was answered: _perform_signin starts
ManualExec(i) ==
    /\ Runnable(i, "myield")
    /\ procs' = [procs EXCEPT ![i] = PerformStart(@, user_configs[@.user])]
    /\ UNCHANGED <<user_configs, scheduled_tasks, session, file, now, life, ncmds, answer>>

(***************************************************************************)
(* terminate().  The host sends no command to a plugin it is terminating,  *)
(* and terminates it when no command is in progress.                       *)
(***************************************************************************)
\* a terminate that cancels nothing
CancelAll_nothing(ps, is) == ps

RECURSIVE CancelAll(_, _)
\* the loop of terminate over the registered tasks: cancel() for each that
\* is not done
CancelAll(ps, is) ==
    IF Len(is) = 0 THEN ps
    ELSE CancelAll(cancel(mark(ps, Head(is), "terminate"), Head(is)), Tail(is))

\* every registered task that is not done is cancelled; gather is awaited
TerminateBegin ==
    /\ life = "running"
    /\ Quiet
    /\ \A i \in 1..Len(procs) : procs[i].kind = "manual" => procs[i].pc = "done"
    /\ procs' = CancelAll(procs, SetToSeq({scheduled_tasks[u] : u \in DOMAIN scheduled_tasks}))
    /\ life' = "gathering"
    /\ UNCHANGED <<user_configs, scheduled_tasks, session, file, now, ncmds, answer>>

\* gather returned, every registered task is done: the settings are saved
TerminateSave ==
    /\ life = "gathering"
    /\ \A u \in DOMAIN scheduled_tasks : procs[scheduled_tasks[u]].pc = "done"
    /\ file' = save_user_configs(user_configs)
    /\ life' = "saved"
    /\ UNCHANGED <<user_configs, scheduled_tasks, session, procs, now, ncmds, answer>>

\* the session is closed
TerminateClose ==
    /\ life = "saved"
    /\ session' = IF session = "open" THEN "closed" ELSE session
    /\ life' = "terminated"
    /\ UNCHANGED <<user_configs, scheduled_tasks, file, procs, now, ncmds, answer>>

(***************************************************************************)
(* The clock.  Time passes up to the end of the earliest sleep.            *)
(***************************************************************************)
Deadlines ==
    {procs[i].wake : i \in {j \in 1..Len(procs) :
                               procs[j].pc \in {"waiting", "cooldown"}}}

Advance(limit) ==
    /\ Quiet
    /\ \E t \in Deadlines :
          /\ t > now
          /\ t <= limit
          /\ \A d \in Deadlines : t <= d
          /\ now' = t
    /\ UNCHANGED <<user_configs, scheduled_tasks, session, file, procs, life, ncmds, answer>>

(***************************************************************************)
(* The steps of the coroutines for given sets of responses of the portal.  *)
(***************************************************************************)
\* the steps of the coroutines that run _auto_signin_task or _perform_signin
Steps(classes, tasks, submits, sends) ==
    \E i \in 1..MaxProcs :
        \/ CancelDeliver(i)
        \/ TaskStart(i)
        \/ SleepDone(i)
        \/ CooldownDone(i)
        \/ \E r \in classes : ClassResp(i, r)
        \/ \E r \in tasks : TaskResp(i, r)
        \/ \E r \in submits : SubmitResp(i, r)
        \/ \E raises \in BOOLEAN : \E fails \in sends : SendDone(i, raises, fails)

\* the steps of manual_signin before _perform_signin
ManualSteps(classes) ==
    \E i \in 1..MaxProcs :
        \/ \E r \in classes : ManualClassResp(i, r)
        \/ ManualExec(i)

Terminate ==
    \/ TerminateBegin
    \/ TerminateSave
    \/ TerminateClose

(***************************************************************************)
(* Spec: the scheduler.  One user enables, disables and reschedules auto   *)
(* check-in and changes the notification targets while the tasks run, and  *)
(* the plugin is terminated.                                               *)
(***************************************************************************)
SchedCommand(u) ==
    \/ \E v \in {T2300, T0800} : SetAutoTime(u, v)
    \/ \E v \in {"enable", "disable"} : SetAutoEnable(u, v)

SchedClasses == {r \in ClassResponses : r.exc \/ r.ids = <<"c1">>}
SchedTasks == {r \in TaskResponses : r.exc \/ r.page = "t1"}
SchedSubmits == {r \in SubmitResponses : r.content \in {<<"signin_success">>, <<"other">>}}

Next ==
    \/ Initialize
    \/ ncmds < MaxCmds /\ ncmds' = ncmds + 1 /\ SchedCommand("u1")
    \/ Steps(SchedClasses, SchedTasks, SchedSubmits, {FALSE})
    \/ Terminate
    \/ Advance(MaxNow)

Spec == Init /\ [][Next]_vars

(***************************************************************************)
(* SpecCheckin: one fire.  The task of a user waits for its first fire on  *)
(* the day before the last day of the month; the user changes the          *)
(* configuration, disables auto check-in or checks in manually before,     *)
(* during and after the check-in.                                          *)
(***************************************************************************)
\* the record of SavedEnabled before a class was resolved
SavedNoClass == [SavedEnabled EXCEPT !.class_id = ""]

CheckinStart == StartNow - MinutesPerDay

InitCheckin ==
    /\ user_configs = <<>>
    /\ scheduled_tasks = <<>>
    /\ session = "none"
    /\ file \in {[exists |-> TRUE, data |-> ("u1" :> SavedEnabled)],
                 [exists |-> TRUE, data |-> ("u1" :> SavedNoClass)]}
    /\ procs = <<>>
    /\ now = CheckinStart
    /\ life = "constructed"
    /\ ncmds = 0
    /\ answer = ""

CheckinCommand(u) ==
    \/ SetCookie(u, "ck2")
    \/ SetLat(u, <<"3", "0", ".", "1">>)
    \/ SetClassId(u, "")
    \/ \E v \in {<<"0">>, <<"-", "1">>, <<"x">>} : SetOffset(u, v)
    \/ \E chat \in Chats : \E v \in Levels : SetNotification(u, chat, v)
    \/ \E chat \in Chats : RemoveNotification(u, chat)
    \/ SetAutoEnable(u, "disable")
    \/ ManualStart(u)

\* a transport error, a response that lets the check-in go on and one that
\* ends it, for each request
CheckinClasses == {r \in ClassResponses : r.exc \/ r.ids = <<"c1">> \/ r.status = 403}
CheckinTasks ==
    {r \in TaskResponses : r.exc \/ r.page = "t1" \/ (r.status = 403 /\ r.redirect = "")}
CheckinSubmits ==
    {r \in SubmitResponses : r.exc \/ r.content \in {<<"signin_success">>, <<"too_far">>}}

NextCheckin ==
    \/ Initialize
    \/ ncmds < MaxCmds /\ ncmds' = ncmds + 1 /\ CheckinCommand("u1")
    \/ Steps(CheckinClasses, CheckinTasks, CheckinSubmits, {FALSE})
    \/ ManualSteps(CheckinClasses)
    \/ Advance(CheckinStart + 2 * MinutesPerHour)

SpecCheckin == InitCheckin /\ [][NextCheckin]_vars

(***************************************************************************)
(* SpecNextRun: the computation of the next fire time.  A task that was    *)
(* just created for a user with a valid time of day takes its first step   *)
(* at any moment of a month, sleeps and fires.                             *)
(***************************************************************************)
T0000 == <<"0", "0", ":", "0", "0">>
T800 == <<"8", ":", "0", "0">>
T2359 == <<"2", "3", ":", "5", "9">>

NextRunTimes == {T0000, T800, T0800, T2300, T2359}
NextRunDays == {1, 15, DaysInMonth - 1, DaysInMonth}
NextRunMinutes == {0, 479, 480, 481, 1380, 1439}

InitNextRun ==
    /\ \E v \in NextRunTimes :
          LET cfgs == "u1" :> [SavedEnabled EXCEPT !.auto_signin_time = v]
          IN  /\ user_configs = cfgs
              /\ file = save_user_configs(cfgs)
    /\ scheduled_tasks = ("u1" :> 1)
    /\ session = "open"
    /\ procs = <<NewProc("task", "u1")>>
    /\ \E d \in NextRunDays : \E m \in NextRunMinutes :
          now = (d - 1) * MinutesPerDay + m
    /\ life = "running"
    /\ ncmds = 0
    /\ answer = ""

NextNextRun ==
    \/ TaskStart(1)
    \/ Advance((DaysInMonth + 1) * MinutesPerDay)
    \/ SleepDone(1)

SpecNextRun == InitNextRun /\ [][NextNextRun]_vars

(***************************************************************************)
(* SpecNotify: the Notifier.  The task of a user with two notification     *)
(* targets fires once; each send_message returns or raises, and the user   *)
(* adds, changes and removes targets or disables auto check-in meanwhile.  *)
(***************************************************************************)
NotifyCommand(u) ==
    \/ \E chat \in Chats : SetNotification(u, chat, "always")
    \/ \E chat \in Chats : RemoveNotification(u, chat)
    \/ SetAutoEnable(u, "disable")

NextNotify ==
    \/ Initialize
    \/ ncmds < MaxCmds /\ ncmds' = ncmds + 1 /\ NotifyCommand("u1")
    \/ Steps(SchedClasses, SchedTasks, SchedSubmits, BOOLEAN)
    \/ Advance(CheckinStart + 2 * MinutesPerHour)

SpecNotify == InitCheckin /\ [][NextNotify]_vars

(***************************************************************************)
(* SpecLoad: the settings file was written by an earlier version: records  *)
(* with notification_target and notification_level, a record without the  *)
(* two mappings and without class_id, and a record without                 *)
(* notification_types.                                                     *)
(***************************************************************************)
InitLoad ==
    LET base == [k \in DOMAIN SavedEnabled \ {"notification_targets", "notification_types"} |->
                    SavedEnabled[k]]
        old(target, level) ==
            base @@ [notification_target |-> target, notification_level |-> level]
    IN  /\ user_configs = <<>>
        /\ scheduled_tasks = <<>>
        /\ session = "none"
        /\ file \in {[exists |-> TRUE, data |-> d] :
                        d \in {"u1" :> old("grp_1", "failure_only"),
                               "u1" :> old("prv", "always"),
                               "u1" :> old("", "always"),
                               "u1" :> [k \in DOMAIN base \ {"class_id"} |-> base[k]],
                               "u1" :> (base @@ [notification_targets |->
                                                    SavedEnabled.notification_targets]),
                               ("u1" :> old("grp_1", "always"))
                                   @@ ("u2" :> old("prv", "failure_only"))}}
        /\ procs = <<>>
        /\ now = CheckinStart
        /\ life = "constructed"
        /\ ncmds = 0
        /\ answer = ""

\* the user registers the chat of the command (a group, a private chat, or
\* a private chat with an underscore in its name), removes it, or disables
\* auto check-in
NextLoad ==
    \/ Initialize
    \/ /\ ncmds < MaxCmds /\ ncmds' = ncmds + 1
       /\ \/ \E chat \in Chats \cup {[origin |-> "prv_2", group |-> FALSE]} :
                SetNotification("u1", chat, "always") \/ RemoveNotification("u1", chat)
          \/ SetAutoEnable("u1", "disable")
    \/ Steps(SchedClasses, SchedTasks, SchedSubmits, BOOLEAN)
    \/ Advance(CheckinStart + 2 * MinutesPerHour)

SpecLoad == InitLoad /\ [][NextLoad]_vars

(***************************************************************************)
(* SpecPortal: the portal.  A scheduled check-in and manual check-ins of   *)
(* one user, one after the other, get every response of the portal.       *)
(***************************************************************************)
\* no check-in and no notification is in progress
Idle == \A i \in 1..Len(procs) : procs[i].pc \in {"waiting", "cooldown", "done"}

\* the user checks in manually, or clears class_id, between the check-ins
PortalCommand(u) ==
    /\ Idle
    /\ ManualStart(u) \/ SetClassId(u, "")

NextPortal ==
    \/ Initialize
    \/ ncmds < MaxCmds /\ ncmds' = ncmds + 1 /\ PortalCommand("u1")
    \/ \E i \in 1..MaxProcs :
          \/ TaskStart(i)
          \/ SleepDone(i)
          \/ \E r \in ClassResponses : ClassResp(i, r)
          \/ \E r \in TaskResponses : TaskResp(i, r)
          \/ \E r \in CheckinSubmits : SubmitResp(i, r)
          \/ SendDone(i, FALSE, FALSE)
    \/ ManualSteps(ClassResponses)
    \/ Advance(CheckinStart + 2 * MinutesPerHour)

SpecPortal == InitCheckin /\ [][NextPortal]_vars

(***************************************************************************)
(* SpecSubmit: the classification of the submission response.  A manual   *)
(* check-in has submitted and gets a body of up to MaxLen phrases.         *)
(***************************************************************************)
\* the phrases _execute_signin looks for, and another one
Phrases ==
    {"signin_success", "already_signed", "signin_failed", "too_far",
     "wrong_place", "wrong_time", "not_signin_time", "no_such_task",
     "invalid_task", "other"}

Bodies == UNION {[1..n -> Phrases] : n \in 0..MaxLen}

InitSubmit ==
    /\ user_configs = ("u1" :> [SavedManual EXCEPT !.class_id = "c1"])
    /\ scheduled_tasks = <<>>
    /\ session = "open"
    /\ file = save_user_configs(user_configs)
    /\ procs = <<Request([NewProc("manual", "u1") EXCEPT
                            !.cookie = "ck1", !.task_id = "t1",
                            !.lat = <<"3", "0", ".", "0">>, !.offset = 20],
                         "submit")>>
    /\ now = CheckinStart
    /\ life = "running"
    /\ ncmds = 0
    /\ answer = ""

NextSubmit ==
    \E content \in Bodies : SubmitResp(1, [exc |-> FALSE, content |-> content])

SpecSubmit == InitSubmit /\ [][NextSubmit]_vars

(***************************************************************************)
(* SpecJitter: the jitter of the coordinates.  A user with coordinates     *)
(* that are numbers, or are not, sets the offset and checks in manually;   *)
(* every pair of draws happens.                                            *)
(***************************************************************************)
InitJitter ==
    /\ \E lat, lng \in {<<"3", "0", ".", "0">>, <<"-", "1", ".", "5">>, <<"x">>} :
          user_configs = ("u1" :> [SavedManual EXCEPT !.class_id = "c1",
                                                       !.lat = lat, !.lng = lng])
    /\ scheduled_tasks = <<>>
    /\ session = "open"
    /\ file = save_user_configs(user_configs)
    /\ procs = <<>>
    /\ now = CheckinStart
    /\ life = "running"
    /\ ncmds = 0
    /\ answer = ""

NextJitter ==
    \/ /\ ncmds < MaxCmds /\ ncmds' = ncmds + 1
       /\ Idle
       /\ \/ \E v \in {<<"0">>, <<"0", ".", "5">>, <<"i", "n", "f">>, <<"x">>} :
                SetOffset("u1", v)
          \/ ManualStart("u1")
    \/ \E i \in 1..MaxProcs :
          \/ ManualExec(i)
          \/ \E r \in SchedTasks : \E k1, k2 \in 0..Draws : TaskDraw(i, r, k1, k2)
          \/ \E r \in SchedSubmits : SubmitResp(i, r)

SpecJitter == InitJitter /\ [][NextJitter]_vars

(***************************************************************************)
(* SpecUsers: two users with credentials of their own.  Their tasks fire   *)
(* at the same time and they check in manually, over the one session.      *)
(***************************************************************************)
InitUsers ==
    /\ user_configs = <<>>
    /\ scheduled_tasks = <<>>
    /\ session = "none"
    /\ file = save_user_configs(
                 ("u1" :> SavedEnabled) @@
                 ("u2" :> [SavedNoClass EXCEPT !.cookie = "ck2",
                                               !.notification_targets = <<>>,
                                               !.notification_types = <<>>]))
    /\ procs = <<>>
    /\ now = CheckinStart
    /\ life = "constructed"
    /\ ncmds = 0
    /\ answer = ""

NextUsers ==
    \/ Initialize
    \/ ncmds < MaxCmds /\ ncmds' = ncmds + 1 /\ \E u \in Users : ManualStart(u)
    \/ \E i \in 1..MaxProcs :
          \/ TaskStart(i)
          \/ SleepDone(i)
          \/ \E r \in SchedClasses : ClassResp(i, r)
          \/ \E r \in SchedTasks : TaskResp(i, r)
          \/ \E r \in SchedSubmits : SubmitResp(i, r)
          \/ SendDone(i, FALSE, FALSE)
    \/ ManualSteps(SchedClasses)
    \/ Advance(CheckinStart + 2 * MinutesPerHour)

SpecUsers == InitUsers /\ [][NextUsers]_vars

(***************************************************************************)
(* SpecSet: the set command.  A user with a task and a user without a      *)
(* record send set commands with values that are accepted and values that  *)
(* are refused, and check in manually, between the check-ins.              *)
(***************************************************************************)
SetCommand(u) ==
    \/ \E v \in {T0800, T2500, TBad, <<"0", "8", "0", "0">>} : SetAutoTime(u, v)
    \/ \E v \in {<<"0">>, <<"-", "1">>, <<"x">>, <<"n", "a", "n">>} : SetOffset(u, v)
    \/ \E chat \in Chats : \E v \in {"never", "loud"} : SetNotification(u, chat, v)
    \/ \E v \in {"enable", "disable", "maybe"} : SetAutoEnable(u, v)
    \/ SetCookie(u, "ck2")
    \/ ManualStart(u)

NextSet ==
    \/ Initialize
    \/ ncmds < MaxCmds /\ ncmds' = ncmds + 1 /\ Idle /\ \E u \in Users : SetCommand(u)
    \/ \E i \in 1..MaxProcs :
          \/ TaskStart(i)
          \/ CancelDeliver(i)
          \/ SleepDone(i)
          \/ \E r \in SchedClasses : ClassResp(i, r)
          \/ \E r \in SchedTasks : TaskResp(i, r)
          \/ \E r \in SchedSubmits : SubmitResp(i, r)
          \/ SendDone(i, FALSE, FALSE)
    \/ ManualSteps(SchedClasses)
    \/ Advance(CheckinStart + 2 * MinutesPerHour)

SpecSet == InitCheckin /\ [][NextSet]_vars

(***************************************************************************)
(* SpecLive: the loop of the task over a day.  The task of a user starts   *)
(* on the last day of a month at 22:00 with a time of day that is to come, *)
(* that has passed, or that time() refuses; the user disables and enables  *)
(* auto check-in.  The event loop runs every coroutine that can run, every *)
(* request and every send_message returns or raises, and time passes.      *)
(***************************************************************************)
InitLive ==
    /\ user_configs = <<>>
    /\ scheduled_tasks = <<>>
    /\ session = "none"
    /\ \E c \in {[SavedEnabled EXCEPT !.auto_signin_time = T2300],
                  [SavedNoClass EXCEPT !.auto_signin_time = T0800],
                  [SavedEnabled EXCEPT !.auto_signin_time = T2500]} :
          file = [exists |-> TRUE, data |-> ("u1" :> c)]
    /\ procs = <<>>
    /\ now = StartNow
    /\ life = "constructed"
    /\ ncmds = 0
    /\ answer = ""

\* the task that initialize starts is the first coroutine.  The event loop
\* runs it when its cancellation, its first step or its timer is due, and
\* send_message returns
Resumes ==
    \/ CancelDeliver(1)
    \/ TaskStart(1)
    \/ SleepDone(1)
    \/ CooldownDone(1)
    \/ SendDone(1, FALSE, FALSE)
    \/ SendDone(1, TRUE, FALSE)

\* ClientTimeout(total=30): a request that got no response ends with an
\* exception
TimesOut ==
    \/ ClassResp(1, [exc |-> TRUE, status |-> 0, ids |-> <<>>])
    \/ TaskResp(1, [exc |-> TRUE, status |-> 0, redirect |-> "", page |-> ""])
    \/ SubmitResp(1, [exc |-> TRUE, content |-> <<>>])

\* a response arrives that lets the check-in go on
Responds ==
    \/ \E r \in {x \in ClassResponses : x.ids = <<"c1">>} : ClassResp(1, r)
    \/ \E r \in {x \in TaskResponses : x.page = "t1"} : TaskResp(1, r)
    \/ \E r \in {x \in SubmitResponses : x.content = <<"signin_success">>} :
          SubmitResp(1, r)

\* the first two hours: a task that runs then fires within the day and the
\* hour of cooldown that follow, which the observed period covers
EarlyHours == now <= StartNow + 2 * MinutesPerHour

NextLive ==
    \/ Initialize
    \/ /\ ncmds < MaxCmds /\ ncmds' = ncmds + 1
       /\ EarlyHours
       /\ \/ SetAutoEnable("u1", "disable")
          \/ RemoveNotification("u1", [origin |-> "prv", group |-> FALSE])
    \/ Resumes
    \/ TimesOut
    \/ Responds
    \/ Advance(MaxNow)

SpecLive ==
    /\ InitLive /\ [][NextLive]_vars
    /\ WF_vars(Resumes) /\ WF_vars(TimesOut) /\ WF_vars(Advance(MaxNow))

(***************************************************************************)
(* SpecFrame: two users side by side.  Each has a task that fires at the   *)
(* same time; the first sets the latitude or the time, removes a           *)
(* notification target, disables auto check-in or checks in manually,      *)
(* before, during and after the check-ins of both.                         *)
(***************************************************************************)
FrameCommand(u) ==
    \/ SetLat(u, <<"3", "0", ".", "1">>)
    \/ SetAutoTime(u, T0800)
    \/ SetAutoEnable(u, "disable")
    \/ RemoveNotification(u, [origin |-> "prv", group |-> FALSE])
    \/ ManualStart(u)

NextFrame ==
    \/ Initialize
    \/ ncmds < MaxCmds /\ ncmds' = ncmds + 1 /\ FrameCommand("u1")
    \/ Steps(SchedClasses, SchedTasks, SchedSubmits, {FALSE})
    \/ \E i \in 1..MaxProcs : ManualExec(i)
    \/ Advance(CheckinStart + 2 * MinutesPerHour)

SpecFrame == InitUsers /\ [][NextFrame]_vars

(***************************************************************************)
(* Properties.                                                             *)
(***************************************************************************)
Tasks == {i \in 1..Len(procs) : procs[i].kind = "task"}
TasksOf(u) == {i \in Tasks : procs[i].user = u}
HttpPcs == {"class", "task", "submit", "mclass"}
ConfigOf(i) == user_configs[procs[i].user]

\* in this step coroutine i sends a request to the portal
Requests(i) == procs'[i].pc \in HttpPcs /\ procs'[i].pc # procs[i].pc

\* in this step coroutine i sends a notification
Notifies(i) ==
    /\ procs'[i].pc = "send"
    /\ procs[i].pc # "send" \/ procs'[i].nidx # procs[i].nidx

\* the iteration of the loop that a fire started is over
IterationOver(i) == procs[i].pc \in {"waiting", "cooldown", "done"}

\* the task was cancelled while a request of its check-in was awaited
CancelledInCheckin(i) == procs[i].cancelAt \in HttpPcs

\* C1 as stated: _schedule_auto_signin waits for the task it cancels to
\* terminate, so a task of a user that has been running is done whenever a
\* newer task of that user exists
C1_OneUnfinishedTask ==
    \A i \in Tasks : \A j \in Tasks :
        (i < j /\ procs[i].user = procs[j].user)
            => procs[i].pc \in {"created", "done"}

\* C1 amended: _schedule_auto_signin requests the cancellation and does not
\* wait.  At any time at most one scheduler task of a user is neither done
\* nor cancelled, at most one has started and is not done, and a task whose
\* cancellation was requested sends no portal request and no notification
C1_OneLiveTask ==
    /\ [](\A u \in Users :
            /\ Cardinality({i \in TasksOf(u) :
                              procs[i].pc # "done" /\ procs[i].cancel = "no"}) <= 1
            /\ Cardinality({i \in TasksOf(u) :
                              procs[i].pc \notin {"created", "done"}}) <= 1)
    /\ [][\A i \in Tasks :
            procs[i].cancel # "no" => ~Requests(i) /\ ~Notifies(i)]_vars

\* a running task was replaced by _schedule_auto_signin and its successor
\* fired
C1_Witness ==
    \E i \in Tasks : \E j \in Tasks :
        /\ procs[i].cancelBy = "schedule"
        /\ procs[i].cancelAt # "created"
        /\ procs[j].user = procs[i].user
        /\ procs[j].att.fired

\* C2 as stated: when the iteration of a fire that started a check-in is
\* over, the Notifier was called exactly once in it
C2_NotifiedOnce ==
    \A i \in Tasks :
        (procs[i].att.fired /\ IterationOver(i)) => procs[i].att.calls = 1

\* C2 amended: a fire that started a check-in calls the Notifier exactly once
\* with the result of the check-in, unless the task was cancelled while a
\* request of the check-in was awaited: then the Notifier is not called.  It
\* is never called twice, and not before the check-in has a result
C2_NotifiedOnceUnlessCancelled ==
    \A i \in Tasks :
        /\ procs[i].att.calls <= 1
        /\ procs[i].att.calls = 1 =>
              procs[i].att.fired /\ procs[i].att.res = procs[i].result
        /\ procs[i].pc \in HttpPcs => procs[i].att.calls = 0
        /\ (procs[i].att.fired /\ IterationOver(i)) =>
              procs[i].att.calls = IF CancelledInCheckin(i) THEN 0 ELSE 1

\* a check-in of a fire failed, the Notifier was called and the task waits
\* for the next fire
C2_Witness ==
    \E i \in Tasks :
        /\ procs[i].att.fired
        /\ procs[i].att.calls = 1
        /\ ~procs[i].att.res.success
        /\ procs[i].pc = "waiting"

\* the scheduler task of a user that was in the Waiting sleep when the user
\* disabled auto check-in
DisabledInWaiting(i) ==
    /\ i \in Tasks
    /\ procs[i].cancelBy = "disable"
    /\ procs[i].cancelAt = "waiting"

\* C3: a task that was in the Waiting sleep when auto check-in was disabled
\* is cancelled by the disable and has terminated before anything else
\* happens; after the disable it issues no portal request, sends no
\* notification and never fires
C3_DisableCancelsWaiting ==
    /\ [](\A i \in 1..Len(procs) :
            DisabledInWaiting(i) =>
                /\ procs[i].cancel # "no"
                /\ procs[i].pc \in {"waiting", "done"}
                /\ Quiet => procs[i].pc = "done")
    /\ [][\A i \in 1..Len(procs) :
            DisabledInWaiting(i) =>
                /\ ~Requests(i)
                /\ ~Notifies(i)
                /\ procs'[i].att = procs[i].att]_vars

\* auto check-in was disabled while the task was waiting, and the time the
\* task was waiting for has passed: the task is done and has not fired
C3_Witness ==
    \E i \in 1..Len(procs) :
        /\ DisabledInWaiting(i)
        /\ procs[i].pc = "done"
        /\ now > procs[i].wake
        /\ ~procs[i].att.fired

\* next_run as C4 states it: today at HH:MM when that is in the future, else
\* the following day at HH:MM
NextOccurrence(t, text) ==
    LET today == DayIndex(t) * MinutesPerDay + target_time(text)
    IN  IF today > t THEN today ELSE today + MinutesPerDay

\* C4 as stated: a task with a valid HH:MM sleeps until the next occurrence
\* of HH:MM, whatever the date and the time are, and fires exactly then
C4_NextOccurrence ==
    \A i \in Tasks :
        /\ procs[i].pc # "cooldown"
        /\ (procs[i].pc = "waiting" /\ now < procs[i].wake) =>
              procs[i].wake = NextOccurrence(now, ConfigOf(i).auto_signin_time)
        /\ procs[i].att.fired => now = procs[i].wake

\* the first step of the fire of task i: the sleep has ended
Fires(i) ==
    /\ procs[i].pc = "waiting"
    /\ procs'[i].pc # "waiting"
    /\ procs'[i].cancel = "no"

\* C5: the fire reads the record of the user as it is when the sleep ends.
\* The check-in starts when auto check-in is on then, with the credential and
\* the class id of then; the coordinates and the jitter radius are those of
\* the moment the check-in is submitted, and the Notifier goes through the
\* targets as they are when it is called
C5_FreshConfig ==
    [][\A i \in Tasks :
         LET config == user_configs[procs[i].user]
         IN  /\ Fires(i) =>
                   /\ procs'[i].att.fired = config.auto_signin_enabled
                   /\ config.auto_signin_enabled =>
                         /\ procs'[i].cookie = config.cookie
                         /\ procs'[i].pc = IF config.class_id = ""
                                           THEN "class" ELSE "task"
             /\ (procs[i].pc = "task" /\ procs'[i].pc = "submit") =>
                   /\ procs'[i].lat = config.lat
                   /\ procs'[i].offset = config.offset
             /\ procs'[i].att.calls # procs[i].att.calls =>
                   procs'[i].nkeys = DictKeys(config.notification_targets)]_vars

\* the credential, the latitude, the jitter radius or the targets were
\* changed while the task was waiting, and the check-in of the fire was
\* submitted and notified with the new ones
C5_Witness ==
    \E i \in Tasks :
        /\ procs[i].att.calls = 1
        /\ procs[i].waitCookie = "ck1" /\ procs[i].cookie = "ck2"
        /\ procs[i].task_id # ""
        /\ procs[i].lat = <<"3", "0", ".", "1">> \/ procs[i].offset = 0
              \/ procs[i].nkeys # DictKeys(SavedEnabled.notification_targets)

\* in this step the check-in attempt of task i and the Notifier call that
\* follows it complete, without a cancellation and without an error of the
\* Notifier
Completes(i) ==
    /\ procs[i].pc \in {"class", "task", "submit", "send"}
    /\ procs'[i].pc \in {"waiting", "cooldown", "done"}
    /\ procs'[i].cancel = "no"
    /\ ~(procs'[i].pc = "cooldown" /\ procs'[i].errCause = "notify")

\* C6 as stated: when a scheduled check-in attempt has completed the task
\* ends if auto check-in is off, and else waits for the configured time of
\* the next day
C6_BackToWaiting ==
    [][\A i \in Tasks :
         LET config == user_configs[procs[i].user]
         IN  Completes(i) =>
                IF ~config.auto_signin_enabled
                THEN procs'[i].pc = "done"
                ELSE /\ procs'[i].pc = "waiting"
                     /\ procs'[i].wake =
                           (DayIndex(now) + 1) * MinutesPerDay
                               + target_time(config.auto_signin_time)]_vars

\* C7: an error in the loop of the scheduler task starts a sleep of one hour
\* in which the task issues no request and sends no notification; the task
\* leaves it after the hour only, to wait for the next occurrence of the
\* configured time or, on another error, for another hour; the errors of a
\* task are at least one hour apart, and a task never waits for a time that
\* could not be computed
C7_Cooldown ==
    /\ [](\A i \in Tasks :
            /\ procs[i].pc = "cooldown" =>
                  /\ procs[i].wake = procs[i].errAt + Cooldown
                  /\ Cooldown = MinutesPerHour
                  /\ procs[i].errAt <= now /\ now <= procs[i].wake
            /\ (procs[i].pc = "waiting" /\ procs[i].cancel = "no") =>
                  /\ target_time(ConfigOf(i).auto_signin_time) # ValueError
                  /\ MinuteOfDay(procs[i].wake)
                        = target_time(ConfigOf(i).auto_signin_time))
    /\ [][\A i \in Tasks :
            /\ procs[i].pc = "cooldown" =>
                  /\ ~Requests(i) /\ ~Notifies(i)
                  /\ procs'[i].pc \in {"cooldown", "waiting", "done"}
                  /\ procs'[i] # procs[i] /\ procs'[i].cancel = "no" =>
                        /\ now = procs[i].errAt + Cooldown
                        /\ procs'[i].pc = "waiting" =>
                              procs'[i].wake
                                 = next_run(now, ConfigOf(i).auto_signin_time)
            /\ (procs'[i].errAt # procs[i].errAt /\ procs[i].errAt # ValueError) =>
                  procs'[i].errAt >= procs[i].errAt + Cooldown]_vars

\* a task had two errors one after the other, an hour apart, and after the
\* second hour it waits for the next occurrence of the configured time
C7_Witness ==
    \E i \in Tasks :
        /\ procs[i].pc = "waiting"
        /\ procs[i].errAt = StartNow + Cooldown
        /\ now >= procs[i].errAt + Cooldown

\* C8 as stated: a transport error in a check-in of the scheduler sends the
\* task to the cooldown, in a manual check-in it gives a failed result
C8_TransportErrorCooldown ==
    \A i \in 1..Len(procs) :
        (procs[i].att.terr /\ procs[i].cancel = "no") =>
            IF procs[i].kind = "manual"
            THEN ~procs[i].result.success
            ELSE procs[i].pc = "cooldown"

\* C8 amended: a transport error in a check-in gives a failed result in a
\* manual and in a scheduled check-in alike.  The scheduler task calls the
\* Notifier with the failed result and is sent to the cooldown by an error
\* of the Notifier only
C8_TransportErrorFails ==
    \A i \in 1..Len(procs) :
        procs[i].att.terr =>
            /\ ~procs[i].result.success
            /\ procs[i].pc \notin HttpPcs
            /\ procs[i].kind = "manual" =>
                  procs[i].pc = "done" /\ procs[i].reply = "failed"
            /\ procs[i].kind = "task" =>
                  /\ procs[i].att.calls = 1
                  /\ ~procs[i].att.res.success
                  /\ procs[i].pc = "cooldown" => procs[i].errCause = "notify"

\* a request of a scheduled check-in raised a transport error, the failure
\* was notified and the task waits for the next fire; a request of a manual
\* check-in raised one and the user was told of the failure
C8_Witness ==
    /\ \E i \in Tasks :
          /\ procs[i].att.terr
          /\ procs[i].pc = "waiting"
          /\ \E k \in 1..Len(procs[i].att.log) : procs[i].att.log[k][4]
    /\ \E i \in 1..Len(procs) :
          procs[i].kind = "manual" /\ procs[i].att.terr /\ procs[i].pc = "done"

\* the transitions of the life of the plugin
LifeOrder ==
    {<<"constructed", "running">>, <<"running", "gathering">>,
     <<"gathering", "saved">>, <<"saved", "terminated">>}

SentAsConfigured(e) ==
    e[4] <=> (e[2] = "always" \/ (e[2] = "failure_only" /\ ~e[3]))

\* C10: the Notifier sends the result to a target exactly when the level of
\* the target is always, or failure_only and the result is a failure; a
\* Notifier that ran to its end undisturbed has visited every target
C10_Levels ==
    \A i \in Tasks :
        LET log == procs[i].att.log
        IN  /\ \A k \in 1..Len(log) :
                  /\ SentAsConfigured(log[k])
                  /\ log[k][3] = procs[i].att.res.success
                  /\ log[k][2] = "never" => ~log[k][4]
                  /\ (log[k][2] = "failure_only" /\ log[k][3]) => ~log[k][4]
            /\ (/\ procs[i].att.calls = 1
                /\ procs[i].pc \in {"waiting", "done"}
                /\ procs[i].cancelBy = ""
                /\ procs[i].errCause # "notify"
                /\ procs[i].nkeys = DictKeys(ConfigOf(i).notification_targets)) =>
                  [k \in 1..Len(log) |-> log[k][1]] = procs[i].nkeys

\* a check-in succeeded: the Notifier skipped a target of level failure_only
\* and sent the result to a target of level always
C10_Witness ==
    \E i \in Tasks :
        LET log == procs[i].att.log
        IN  /\ procs[i].pc = "waiting"
            /\ \E k \in 1..Len(log) :
                  log[k][2] = "failure_only" /\ log[k][3] /\ ~log[k][4]
            /\ \E k \in 1..Len(log) : log[k][2] = "always" /\ log[k][4]

\* C11: when an invocation of the Notifier is over (it returned or raised,
\* and the task was not cancelled while a send_message was awaited), the
\* Notifier raised no error and every target of the invocation was visited
\* exactly once, so that every target whose level passes the filter got
\* exactly one delivery attempt, whichever of the deliveries failed
C11_BestEffort ==
    \A i \in Tasks :
        (procs[i].att.calls = 1 /\ procs[i].pc # "send" /\ procs[i].cancelAt # "send") =>
            /\ procs[i].errCause # "notify"
            /\ \A k \in 1..Len(procs[i].nkeys) :
                  Cardinality({j \in 1..Len(procs[i].att.log) :
                                 procs[i].att.log[j][1] = procs[i].nkeys[k]}) = 1

\* C12: a transport error in a request of _perform_signin ends the attempt
\* with a result: the result is a failure with the diagnostic of the request
\* that raised (the class list, the task list or the submission), it is what
\* the scheduler gives to the Notifier, and the except clause of the
\* scheduler is not entered by the check-in
C12_NoEscape ==
    \A i \in 1..Len(procs) :
        procs[i].att.terr =>
            /\ procs[i].att.resp.exc
            /\ procs[i].result =
                  Failed(IF "ids" \in DOMAIN procs[i].att.resp
                         THEN "no_class_or_list_failed"
                         ELSE IF "page" \in DOMAIN procs[i].att.resp
                         THEN "no_task_found"
                         ELSE "request_exception")
            /\ procs[i].errCause # "checkin"
            /\ procs[i].kind = "task" => procs[i].att.res = procs[i].result

\* each of the three requests raised a transport error in some check-in
C12_Witness ==
    \A m \in {"no_class_or_list_failed", "no_task_found", "request_exception"} :
        \E i \in 1..Len(procs) :
            procs[i].att.terr /\ procs[i].result.message = m

\* C13: a check-in whose class list request got the status 403 tells the
\* user that the credential has expired: the scheduler gives the
\* credential-expired result to the Notifier, and the now command answers
\* with the credential-expired message and not with the generic failure
C13_Expired403 ==
    \A i \in 1..Len(procs) :
        LET r == procs[i].att.resp
        IN  ("ids" \in DOMAIN r /\ r.status = 403) =>
                IF procs[i].kind = "task"
                THEN procs[i].result = CookieExpired /\ procs[i].att.res = CookieExpired
                ELSE procs[i].reply = "failed_with_cookie_help"

\* C14: a check-in whose task list request got a status other than 200 has
\* the credential-expired result, and the check-in is not submitted
C14_TaskStatusExpired ==
    \A i \in 1..Len(procs) :
        LET r == procs[i].att.resp
        IN  ("page" \in DOMAIN r /\ ~r.exc /\ r.status # 200) =>
                /\ procs[i].pc # "submit"
                /\ procs[i].result = CookieExpired

C16_Classification ==
    \A i \in 1..Len(procs) :
        LET r == procs[i].att.resp
            res == procs[i].result
            Order == <<{"signin_success"}, {"already_signed"}, {"signin_failed"},
                       {"too_far", "wrong_place"}, {"wrong_time", "not_signin_time"},
                       {"no_such_task", "invalid_task"}>>
            Names == <<"signin_success", "already_signed", "signin_failed",
                       "too_far", "wrong_time", "invalid_task">>
            Hits == {k \in 1..6 : \E j \in 1..Len(r.content) : r.content[j] \in Order[k]}
        IN  (procs[i].pc = "done" /\ "content" \in DOMAIN r /\ ~r.exc) =>
                IF Hits = {}
                THEN /\ ~res.success
                     /\ Len(res.excerpt) <= Len(r.content)
                     /\ \A j \in 1..Len(res.excerpt) : res.excerpt[j] = r.content[j]
                     /\ Len(r.content) > 0 =>
                           res.message = "unknown_status" /\ Len(res.excerpt) > 0
                ELSE LET k == CHOOSE h \in Hits : \A g \in Hits : h <= g
                     IN  /\ res.message = Names[k]
                         /\ res.success = (k <= 2)

\* a body with the failure phrase before the already-checked-in phrase was
\* classified as already checked in, and the user was told of a success
C16_Witness ==
    \E i \in 1..Len(procs) :
        /\ procs[i].att.resp = [exc |-> FALSE,
                                content |-> <<"signin_failed", "already_signed">>]
        /\ procs[i].result = Succeeded("already_signed")
        /\ procs[i].reply = "ok"

\* C17: in a check-in the requests are sent in the order class list, task
\* list, submission: the first request of a check-in is the class list or
\* the task list, the task list follows a class list that gave a class, the
\* submission follows a task list that gave a task, and nothing else is
\* requested.  Every response ends the request it answers, and no request
\* is sent again; a class list or a task list that gave nothing ends the
\* check-in with a failed result
C17_Order ==
    [][\A i \in 1..Len(procs) :
          LET a == procs[i].pc
              b == procs'[i].pc
              r == procs'[i].att.resp
              answered == r # procs[i].att.resp
              noclass == r.exc \/ r.status # 200 \/ Len(r.ids) = 0
              notask == r.exc \/ (r.redirect = "" /\ (r.status # 200 \/ r.page = ""))
          IN  /\ (b \in {"class", "task", "submit"} /\ b # a) =>
                    \/ a \in {"waiting", "myield"} /\ b \in {"class", "task"} /\ ~answered
                    \/ a = "class" /\ b = "task" /\ answered /\ ~noclass
                    \/ a = "task" /\ b = "submit" /\ answered /\ ~notask
              /\ (a \in HttpPcs /\ answered) => b # a
              /\ (answered /\ ((a = "class" /\ noclass) \/ (a = "task" /\ notask))) =>
                    /\ b \notin HttpPcs
                    /\ ~procs'[i].result.success
                    /\ procs'[i].result # NoResult]_vars

\* a check-in sent the three requests and succeeded, and a check-in whose
\* task list held no task has ended with the failure and without a
\* submission
C17_Witness ==
    /\ \E i \in 1..Len(procs) :
          /\ "content" \in DOMAIN procs[i].att.resp
          /\ procs[i].result.success
    /\ \E j \in 1..Len(procs) :
          /\ procs[j].att.resp = [exc |-> FALSE, status |-> 200,
                                  redirect |-> "", page |-> ""]
          /\ procs[j].result = Failed("no_task_found")
          /\ procs[j].pc \in {"waiting", "done"}

\* C18: every request of a check-in of a user carries the credential of that
\* user and never the credential of another user, however the check-ins of
\* the users interleave; the headers of a check-in are its own: they do not
\* change while the check-in goes on, whatever the other check-ins do
C18_OwnCredential ==
    /\ [](\A i \in 1..Len(procs) :
            procs[i].pc \in HttpPcs =>
                /\ procs[i].cookie = user_configs[procs[i].user].cookie
                /\ \A v \in DOMAIN user_configs \ {procs[i].user} :
                      procs[i].cookie # user_configs[v].cookie)
    /\ [][\A i \in 1..Len(procs) :
            (procs[i].pc \in HttpPcs /\ procs'[i].pc \in HttpPcs) =>
                procs'[i].cookie = procs[i].cookie]_vars

\* requests of check-ins of the two users are awaited at the same time, each
\* with the credential of its user
C18_Witness ==
    \E i \in 1..Len(procs) : \E j \in 1..Len(procs) :
        /\ procs[i].user = "u1" /\ procs[i].pc \in HttpPcs /\ procs[i].cookie = "ck1"
        /\ procs[j].user = "u2" /\ procs[j].pc \in HttpPcs /\ procs[j].cookie = "ck2"

\* C19: a set command with a value that is refused (an auto_time that is not
\* H:MM or HH:MM, a negative offset, an offset that is not a number, an
\* unknown notification level, an unknown auto_enable value) answers with an
\* error and changes neither the record of the user (the default record for
\* a user who has none) nor the records of the others, the settings file,
\* the registered tasks or any task
C19_Rejected ==
    [][\A u \in Users :
          (\/ \E v \in {TBad, <<"0", "8", "0", "0">>} : SetAutoTime(u, v)
           \/ \E v \in {<<"-", "1">>, <<"x">>} : SetOffset(u, v)
           \/ \E chat \in Chats : SetNotification(u, chat, "loud")
           \/ SetAutoEnable(u, "maybe")) =>
              /\ answer' = "error"
              /\ get_user_config(user_configs', u)[u] = get_user_config(user_configs, u)[u]
              /\ \A w \in DOMAIN user_configs : user_configs'[w] = user_configs[w]
              /\ UNCHANGED <<file, scheduled_tasks, procs>>]_vars

\* the last set command of a user was refused while the task of the user
\* sleeps until its fire, and the settings file is as it was loaded
C19_Witness ==
    /\ answer = "error"
    /\ file = save_user_configs("u1" :> SavedEnabled)
    /\ \E i \in TasksOf("u1") : procs[i].pc = "waiting" /\ procs[i].cancel = "no"

C21_TypesWithinTargets ==
    /\ [](\A u \in DOMAIN user_configs :
            \A j \in 1..Len(user_configs[u].notification_types) :
                DictHas(user_configs[u].notification_targets,
                        user_configs[u].notification_types[j][1]))
    /\ [][\A u \in DOMAIN user_configs : \A chat \in Chats :
            LET k == chat.origin
                old == user_configs[u]
                new == user_configs'[u]
            IN  /\ (DictHas(new.notification_targets, k)
                       /\ ~DictHas(old.notification_targets, k))
                    => DictHas(new.notification_types, k)
                /\ (DictHas(old.notification_targets, k)
                       /\ ~DictHas(new.notification_targets, k))
                    => ~DictHas(new.notification_types, k)]_vars

\* the group chat was removed from the targets and registered again: it is
\* the last entry of both mappings
C21_Witness ==
    /\ "u1" \in DOMAIN user_configs
    /\ user_configs["u1"].notification_targets =
          <<<<"prv", "always">>, <<"grp_1", "always">>>>
    /\ user_configs["u1"].notification_types =
          <<<<"prv", "private">>, <<"grp_1", "group">>>>

\* C22: the offset of every user is a number that is greater than or equal
\* to 0
C22_OffsetNonNegative ==
    \A u \in DOMAIN user_configs :
        user_configs[u].offset # NaN /\ user_configs[u].offset >= 0

\* C23: the auto_signin_time of every user is one or two digits, a colon and
\* two digits, and a set auto_time with another value leaves the stored time
\* of the user as it was
C23_TimePattern ==
    /\ [](\A u \in DOMAIN user_configs :
            LET t == user_configs[u].auto_signin_time
            IN  MatchesTime(t) /\ Len(t) \in 4..5 /\ t[Len(t)] # "\n")
    /\ [][\A u \in Users : \A v \in {TBad, <<"0", "8", "0", "0">>} :
            SetAutoTime(u, v) =>
                user_configs'[u].auto_signin_time =
                    get_user_config(user_configs, u)[u].auto_signin_time]_vars

\* both users hold a record, the first with the time a set auto_time stored
\* and the second with the default time, after a set auto_time was refused
C23_Witness ==
    /\ DOMAIN user_configs = Users
    /\ user_configs["u1"].auto_signin_time = T0800
    /\ user_configs["u2"].auto_signin_time = T0800
    /\ "u2" \notin DOMAIN file.data
    /\ answer = "error"

\* C24: loading a record of the old format, with one notification target
\* and its level and without the mappings, gives the user a record whose
\* notification_targets is exactly that target with that level; loading a
\* record without notification_targets or without notification_types gives
\* the user the empty mapping for the field that misses
C24_LegacyLoaded ==
    [][Initialize =>
        \A u \in DOMAIN file.data :
            LET d == file.data[u]
                old == {"notification_target", "notification_level"} \subseteq DOMAIN d
            IN  /\ u \in DOMAIN user_configs'
                /\ (old /\ d.notification_target # "" /\ "notification_targets" \notin DOMAIN d) =>
                       user_configs'[u].notification_targets =
                           <<<<d.notification_target, d.notification_level>>>>
                /\ (~old /\ "notification_targets" \notin DOMAIN d) =>
                       user_configs'[u].notification_targets = <<>>
                /\ "notification_types" \notin DOMAIN d =>
                       user_configs'[u].notification_types = <<>>]_vars

\* the file still holds the old record of u1, and the loaded record of u1
\* has the one target of it with its level, no types, and the other fields
\* of the file
C24_Witness ==
    /\ life = "running"
    /\ "notification_target" \in DOMAIN file.data["u1"]
    /\ file.data["u1"].notification_level = "failure_only"
    /\ user_configs["u1"] =
           [SavedEnabled EXCEPT !.notification_targets = <<<<"grp_1", "failure_only">>>>,
                                !.notification_types = <<>>]

\* C25: while a submission is in flight, a coordinate of the settings that
\* is a number was sent as a number that lies within the offset of it, and
\* as the same number when the offset is 0, for every offset that is
\* greater than or equal to 0
C25_JitterWithinRadius ==
    \A i \in 1..Len(procs) :
        (procs[i].pc = "submit" /\ procs[i].offset # NaN /\ procs[i].offset >= 0) =>
            \A c \in 1..2 :
                LET orig == float(IF c = 1 THEN procs[i].lat
                                 ELSE user_configs[procs[i].user].lng)
                    new == float(procs[i].sent[c])
                    radius == procs[i].offset
                IN  (~orig.raise /\ orig.value \notin {NaN, Inf, 0 - Inf}) =>
                        /\ ~new.raise /\ new.value # NaN
                        /\ orig.value - radius <= new.value
                        /\ new.value <= orig.value + radius
                        /\ radius = 0 => new.value = orig.value

\* C26: the message of every notification that is sent mentions the user
\* when the session type recorded for the target is group and is plain when
\* it is private; for a target without a recorded session type it mentions
\* the user exactly when the target holds "group" or an underscore; and the
\* session type recorded for a chat is the one of the chat that registered it
C26_MentionByRecordedType ==
    /\ [](\A u \in DOMAIN user_configs :
            \A chat \in Chats \cup {[origin |-> "prv_2", group |-> FALSE]} :
                DictHas(user_configs[u].notification_types, chat.origin) =>
                    DictGet(user_configs[u].notification_types, chat.origin, "") =
                        IF chat.group THEN "group" ELSE "private")
    /\ [][\A i \in 1..Len(procs) :
            (i <= Len(procs') /\ procs'[i].att.chain # procs[i].att.chain) =>
                LET sent == procs'[i].att.chain[Len(procs'[i].att.chain)]
                    recorded == DictGet(user_configs[procs[i].user].notification_types,
                                        sent[1], "")
                IN  /\ procs'[i].att.chain = Append(procs[i].att.chain, sent)
                    /\ recorded = "group" => sent[2] = "at"
                    /\ recorded = "private" => sent[2] = "plain"
                    /\ recorded = "" =>
                           (sent[2] = "at" <=> sent[1] \in {"grp_1", "prv_2"})]_vars

\* one Notifier call sent a plain message to the private chat prv_2, whose
\* recorded session type is private, and a message with a mention to grp_1,
\* which has no recorded session type
C26_Witness ==
    \E i \in 1..Len(procs) :
        /\ procs[i].att.chain = <<<<"grp_1", "at">>, <<"prv_2", "plain">>>>
        /\ user_configs[procs[i].user].notification_types = <<<<"prv_2", "private">>>>

\* C27: a check-in attempt asks for the class list exactly when class_id of
\* the user is empty when it starts, so an attempt that starts while
\* class_id is set does not ask; and the class id a response resolves is
\* in the record of the user and in the settings file when the attempt
\* goes on
C27_ResolveOnlyWhenEmpty ==
    [][\A i \in 1..Len(procs') :
        LET before == IF i <= Len(procs) THEN procs[i].pc ELSE "created"
            after == procs'[i].pc
            u == procs'[i].user
        IN  /\ (before \in {"created", "waiting", "myield"} /\ after \in {"class", "mclass", "task"}) =>
                   (after \in {"class", "mclass"}
                        <=> get_user_config(user_configs, u)[u].class_id = "")
            /\ (before \notin {"class", "mclass"}) =>
                   (after \in {"class", "mclass"} => before \in {"created", "waiting", "myield"})
            /\ (before \in {"class", "mclass"} /\ after \in {"task", "myield"}) =>
                   /\ user_configs'[u].class_id # ""
                   /\ file'.data[u].class_id = user_configs'[u].class_id]_vars

\* the class id that the scheduled check-in resolved is in the record and
\* in the file, and a manual check-in that came later asked for the task
\* list without having asked for the class list
C27_Witness ==
    /\ "u1" \in DOMAIN user_configs
    /\ user_configs["u1"].class_id = "c1"
    /\ file.data["u1"] = [SavedNoClass EXCEPT !.class_id = "c1"]
    /\ \E i, j \in 1..Len(procs) :
          /\ procs[i].kind = "task" /\ procs[i].att.fired /\ procs[i].pc = "waiting"
          /\ procs[j].kind = "manual" /\ procs[j].pc = "task" /\ procs[j].att.resp = <<>>

\* C28: between initialize and terminate, whenever no command is in
\* progress, a user has a registered task that is not done exactly when
\* auto_signin_enabled of the user is true
C28_TaskIffEnabled ==
    life = "running" =>
        \A u \in Users :
            (u \in DOMAIN scheduled_tasks /\ procs[scheduled_tasks[u]].pc # "done")
                <=> (u \in DOMAIN user_configs /\ user_configs[u].auto_signin_enabled)

\* auto check-in was disabled and enabled again: the task of the load was
\* cancelled by the disable and is done, and the registered task is the one
\* the enable started
C28_Witness ==
    /\ life = "running"
    /\ "u1" \in DOMAIN scheduled_tasks
    /\ user_configs["u1"].auto_signin_enabled
    /\ procs[scheduled_tasks["u1"]].pc = "waiting"
    /\ \E i \in TasksOf("u1") :
          i < scheduled_tasks["u1"] /\ procs[i].cancelBy = "disable" /\ procs[i].pc = "done"

\* C29: a task whose cancellation was requested, by a disable, by a
\* reschedule or by terminate, in its sleep, in a request of its check-in,
\* in a send_message of the Notifier or in the cooldown, is the next
\* coroutine that runs and is done by that step; from the request of the
\* cancellation on it sends no request to the portal and no notification
\* and changes nothing but itself, and a task that is done stays done
C29_CancelledTerminates ==
    /\ [](\A i \in Tasks :
            /\ procs[i].cancel = "pending" => i \in Ready /\ procs[i].pc # "done"
            /\ procs[i].cancel = "delivered" => procs[i].pc = "done")
    /\ [][\A i \in Tasks :
            /\ procs[i].cancel # "no" =>
                  /\ ~Requests(i) /\ ~Notifies(i)
                  /\ procs'[i].pc \in {procs[i].pc, "done"}
                  /\ procs'[i].att = procs[i].att
            /\ (procs[i].cancel = "pending" /\ FirstReady(i)) =>
                  /\ procs'[i].pc = "done"
                  /\ UNCHANGED <<user_configs, scheduled_tasks, session, file>>
            /\ procs[i].pc = "done" => procs'[i].pc = "done"]_vars

\* two tasks of the user are done by cancellation: one was cancelled in the
\* middle of its check-in or of its notifications, the other one in its
\* sleep or in the cooldown
C29_Witness ==
    \E i, j \in Tasks :
        /\ procs[i].pc = "done" /\ procs[i].cancel = "delivered"
        /\ procs[i].cancelAt \in HttpPcs \cup {"send"}
        /\ procs[j].pc = "done" /\ procs[j].cancel = "delivered"
        /\ procs[j].cancelAt \in {"waiting", "cooldown"}

\* C30: no task is in the cooldown that it entered at the head of its loop
\* while time(hour, minute) refuses the auto_signin_time of the user, which
\* is a time that set auto_time accepted or the default
C30_AcceptedTimeUsable ==
    \A i \in Tasks :
        (procs[i].pc = "cooldown" /\ procs[i].errCause = "schedule") =>
            target_time(ConfigOf(i).auto_signin_time) # ValueError

\* C31: when the sleep of a task ends, the check-in starts, with its first
\* request, exactly when auto_signin_enabled of the user is true at that
\* moment; when it is false the task sends no request and no notification
\* and is done; a task sends requests and notifications only in an attempt
\* that a fire started; and auto_signin_enabled is true for every task that
\* sleeps until its fire and was not cancelled, because a disable cancels
\* the task
C31_FireOnlyWhenEnabled ==
    /\ [](\A i \in Tasks :
            (procs[i].pc = "waiting" /\ procs[i].cancel = "no") =>
                ConfigOf(i).auto_signin_enabled)
    /\ [][\A i \in Tasks :
        LET ends == /\ procs[i].pc = "waiting"
                    /\ procs'[i] # procs[i]
                    /\ procs'[i].cancel = "no"
        IN  /\ ends =>
                  IF ConfigOf(i).auto_signin_enabled
                  THEN procs'[i].att.fired /\ Requests(i)
                  ELSE /\ ~procs'[i].att.fired
                       /\ ~Requests(i) /\ ~Notifies(i)
                       /\ procs'[i].pc = "done"
            /\ (Requests(i) \/ Notifies(i)) => procs'[i].att.fired
            /\ (procs'[i].att.fired /\ procs'[i].att # procs[i].att /\ ~ends) =>
                  procs[i].att.fired]_vars

\* the task of a user with auto check-in on fired at the time it waited for
\* and its check-in is submitted
C31_Witness ==
    \E i \in Tasks :
        /\ procs[i].att.fired /\ procs[i].pc = "submit"
        /\ now = procs[i].wake
        /\ ConfigOf(i).auto_signin_enabled
        /\ procs[i].cancel = "no"

\* C32: a set auto_time with a value that is accepted stores the value; for
\* a user with auto check-in on it cancels the registered task and
\* registers a new one, whose first step starts the sleep until the next
\* occurrence of the new time, and every fire of a task happens at the time
\* of day of the record; for a user with auto check-in off it creates no
\* task
C32_Rescheduled ==
    [][/\ \A u \in Users : \A v \in {T0800, T2500} :
            SetAutoTime(u, v) =>
                /\ user_configs'[u].auto_signin_time = v
                /\ IF get_user_config(user_configs, u)[u].auto_signin_enabled
                   THEN /\ Len(procs') = Len(procs) + 1
                        /\ scheduled_tasks'[u] = Len(procs')
                        /\ procs'[Len(procs')].pc = "created"
                        /\ \A i \in TasksOf(u) :
                              procs[i].pc = "done" \/ procs'[i].cancel # "no"
                   ELSE UNCHANGED <<procs, scheduled_tasks>>
       /\ \A i \in Tasks :
            /\ (procs[i].pc = "created" /\ procs'[i].pc # "created"
                    /\ procs'[i].cancel = "no") =>
                  /\ procs'[i].pc = "waiting"
                  /\ procs'[i].wake = NextOccurrence(now, ConfigOf(i).auto_signin_time)
            /\ Fires(i) =>
                  MinuteOfDay(now) = target_time(ConfigOf(i).auto_signin_time)]_vars

\* the task i runs the loop for a user whose auto check-in is on, with a
\* time of day that time() accepts, and was not cancelled
InLoop(i) ==
    /\ i \in Tasks
    /\ procs[i].cancel = "no"
    /\ procs[i].pc # "done"
    /\ ConfigOf(i).auto_signin_enabled
    /\ target_time(ConfigOf(i).auto_signin_time) # ValueError

\* C33: while auto check-in stays on with a time of day of hour 0..23 and
\* minute 0..59 and the task is not cancelled, a task that is starting,
\* waiting or in the error cooldown fires, and a task that runs a check-in
\* gets back to the wait or the cooldown: the task fires again and again and
\* does not stay in the cooldown
C33_FiresAgain ==
    /\ (InLoop(1) /\ EarlyHours /\ procs[1].pc \in {"created", "waiting", "cooldown"})
          ~> \/ ~InLoop(1)
             \/ procs[1].att.fired /\ procs[1].pc \in HttpPcs /\ now = procs[1].wake
    /\ (InLoop(1) /\ EarlyHours /\ procs[1].pc \notin {"created", "waiting", "cooldown"})
          ~> (~InLoop(1) \/ procs[1].pc \in {"waiting", "cooldown"})

\* a task that was in the error cooldown, for next_run or for the Notifier,
\* fires after it
C33_Witness ==
    \E i \in Tasks :
        /\ InLoop(i)
        /\ procs[i].errCause = "notify"
        /\ procs[i].att.fired /\ procs[i].pc \in HttpPcs
        /\ now = procs[i].wake /\ now > procs[i].errAt + Cooldown

\* what the plugin holds for user u: the record, the registered task and the
\* coroutines that run for u
Owned(u) ==
    <<IF u \in DOMAIN user_configs THEN <<user_configs[u]>> ELSE <<>>,
      IF u \in DOMAIN scheduled_tasks THEN <<scheduled_tasks[u]>> ELSE <<>>,
      [i \in {j \in 1..Len(procs) : procs[j].user = u} |-> procs[i]]>>

\* C34: between initialize and terminate a step that changes the record,
\* the registered task or a coroutine of a user a (a set command, a manual
\* check-in, a fire, an error or a cancellation) changes nothing of another
\* user b, and the task of b is never waiting past the time it waits for and
\* fires at that time
C34_Frame ==
    /\ [](\A i \in Tasks : procs[i].pc = "waiting" => now <= procs[i].wake)
    /\ [][/\ (life = "running" /\ life' = "running") =>
               \A a \in Users : \A b \in Users \ {a} :
                   Owned(a)' # Owned(a) => Owned(b)' = Owned(b)
           /\ \A i \in Tasks : Fires(i) => now = procs[i].wake]_vars

\* the task of u1 was cancelled while it waited, or entered the cooldown,
\* and u1 changed the latitude; the task of u2 fired at its time
C34_Witness ==
    \E i \in TasksOf("u1") : \E j \in TasksOf("u2") :
        /\ procs[i].cancel = "delivered" \/ procs[i].pc = "cooldown"
        /\ user_configs["u1"].lat = <<"3", "0", ".", "1">>
        /\ procs[j].att.fired /\ procs[j].pc \in HttpPcs
        /\ now = procs[j].wake /\ procs[j].cancel = "no"

====
